---- MODULE Spec2Model ----
(***************************************************************************)
(* Context monitor of windows-volume-control-mcp (src/mcp_handler.py):     *)
(* the MCPHandler object, its background tick loop, the rule matcher and   *)
(* the start/stop lifecycle.                                               *)
(*                                                                         *)
(* Values.  A Python Optional is a sequence of length <= 1: None is <<>>   *)
(* and a present value v is <<v>>.  A window title and a regex pattern are *)
(* sequences of one-character strings; a profile name and a rule type are  *)
(* strings.  A context rule is a function from the keys it holds to their  *)
(* values, as the JSON object it was loaded from.                          *)
(*                                                                         *)
(* Threads.  A loop thread takes one step between two blocking calls of    *)
(* _monitor_loop: the window query, load_sound_profile, time.sleep and     *)
(* Event.wait.  Several loop threads can be alive at once; they share      *)
(* every attribute of the handler.  start_monitoring and stop_monitoring   *)
(* are called from one controlling thread, which blocks in Thread.join.    *)
(* What load_sound_profile returns is an input of the step that ends it.   *)
(*                                                                         *)
(* Specifications.  Spec: the monitor under every window sequence and      *)
(* every lifecycle call.  TracedSpec: the same with history variables.     *)
(* ScenarioSpec: the monitor on a fixed window sequence.  MatchSpec: the   *)
(* rule matcher alone.  FaultSpec: the monitor on configurations whose     *)
(* values have the wrong type.  StoreSpec: the profile store               *)
(* (src/profile_manager.py) over the Sound Store (src/registry_handler.py) *)
(* under every sequence of operations.  CliSpec: the command line          *)
(* (src/cli.py), one command per step.  TimedSpec: the monitor with the    *)
(* clock of its sleeps.  FairSpec: the observed monitor under fair         *)
(* scheduling of its threads.  WholeSpec: the monitor over the profile     *)
(* store.  NameSpec: the profile name predicate on every short name.       *)
(***************************************************************************)
EXTENDS Naturals, Sequences, FiniteSets, TLC

VARIABLES
    config_file,               \* the configuration file __init__ was given
    constructed,               \* __init__ returned (FALSE: it raised, there is no monitor)
    monitor_interval,          \* self.monitor_interval, in seconds
    mcp_config,                \* keys of the "mcp_profiles" section (a set)
    contexts,                  \* self.contexts: the ordered rule list
    default_profile,           \* self.default_profile: Optional profile
    current_profile,           \* self.current_profile: Optional profile
    last_active_window_title,  \* self.last_active_window_title: Optional title
    _stop_event,               \* self._stop_event: is the event set
    _monitor_thread,           \* self._monitor_thread: Optional loop id
    loops,                     \* loop id -> the thread's position and locals
    caller,                    \* the controlling thread: "idle" or "joining"
    last_call,                 \* history: <<latest lifecycle call, was the loop running>>
    prev_observed,             \* history: Optional result of the latest window query
    run_members,               \* history: loops whose pending query is in the current run of equal titles
    run_evaluated,             \* history: a tick of the current run has evaluated the rules
    signalled,                 \* history: loops that were running when stop set the event
    failed_context,            \* history: Optional window context of a failed apply
    watched,                   \* history: loops that queried that context after the failure
    script,                    \* scenario: window titles still to be observed
    apply_log,                 \* scenario: <<profile, success>> per finished apply
    restarted,                 \* scenario: a stop or a second start happened
    window_info,               \* matcher: the argument of _match_context
    match_result,              \* matcher: <<returned Optional profile>>, or <<>> before the call
    registry,                  \* store: the sound scheme keys of HKCU
    profile_dir,               \* store: the profile directory, name -> text of <name>.json
    op,                        \* store: the latest call of a profile operation
    process,                   \* command line: the latest run of main
    elapsed                    \* clock: loops whose sleep has lasted the whole interval

vars == <<config_file, constructed, monitor_interval, mcp_config, contexts, default_profile, current_profile,
          last_active_window_title, _stop_event, _monitor_thread, loops,
          caller, last_call, prev_observed, run_members, run_evaluated,
          signalled,
          failed_context, watched,
          script, apply_log, restarted, window_info, match_result,
          registry, profile_dir, op, process, elapsed>>

-----------------------------------------------------------------------------
(* Bounds *)

MaxLoops == 2      \* loop threads that can exist at the same time
MaxNameLen == 3    \* length of the names _is_valid_profile_name is tried on
MaxRules == 4      \* length of the rule lists the matcher is tried on

-----------------------------------------------------------------------------
(* Optional values and Python truthiness *)

None == <<>>
Some(v) == <<v>>

\* bool(x) of an Optional string: None and "" are falsy.
TruthyStr(o) == o # None /\ o[1] # ""

\* bool(x) of an Optional character sequence: None and the empty one are falsy.
TruthySeq(o) == o # None /\ o[1] # <<>>

\* dict.get(key): None when the key is absent.
Get(d, key) == IF key \in DOMAIN d THEN Some(d[key]) ELSE None

\* JSON does not type the fields of the configuration: where the code
\* expects a string it can find a number.  Number7 stands for the number 7
\* in the place of a profile name or a rule type, and <<Number7>> for it in
\* the place of a pattern or a title.  It is truthy and equal to no string.
Number7 == "<number 7>"

\* isinstance(v, str), of a name and of a character sequence.
IsStr(v) == v # Number7
IsStrSeq(p) == \A i \in 1..Len(p) : IsStr(p[i])

-----------------------------------------------------------------------------
(* re.search(pattern, title, re.IGNORECASE) on patterns made of literal     *)
(* characters, "." and the postfix "*".                                     *)

UpperCase == <<"A","B","C","D","E","F","G","H","I","J","K","L","M",
               "N","O","P","Q","R","S","T","U","V","W","X","Y","Z">>
LowerCase == <<"a","b","c","d","e","f","g","h","i","j","k","l","m",
               "n","o","p","q","r","s","t","u","v","w","x","y","z">>

\* Case folding of one character (re.IGNORECASE).
Fold(c) ==
    IF \E i \in 1..Len(UpperCase) : UpperCase[i] = c
    THEN LowerCase[CHOOSE i \in 1..Len(UpperCase) : UpperCase[i] = c]
    ELSE c

\* One pattern atom against one character of the title.
AtomMatches(a, c) == a = "." \/ Fold(a) = Fold(c)

\* re.compile raises re.error ("nothing to repeat", "multiple repeat") when a
\* "*" has no atom before it.
RegexError(p) ==
    \E i \in 1..Len(p) : p[i] = "*" /\ (i = 1 \/ p[i-1] = "*")

RECURSIVE MatchHere(_, _)
\* Does the pattern p match a prefix of s?
MatchHere(p, s) ==
    IF p = <<>> THEN TRUE
    ELSE IF Len(p) >= 2 /\ p[2] = "*"
    THEN \E k \in 0..Len(s) :
            /\ \A j \in 1..k : AtomMatches(p[1], s[j])
            /\ MatchHere(SubSeq(p, 3, Len(p)), SubSeq(s, k+1, Len(s)))
    ELSE /\ s # <<>>
         /\ AtomMatches(p[1], s[1])
         /\ MatchHere(Tail(p), Tail(s))

\* re.search: a match starting at any position of the title (not a full match).
Search(p, s) ==
    \E i \in 1..(Len(s)+1) : MatchHere(p, SubSeq(s, i, Len(s)))

-----------------------------------------------------------------------------
(* MCPHandler._match_context *)

\* Mutant of RuleResult: re.match (anchored at the start of the title) in
\* place of re.search.
RuleResultAnchored(context_rule, current_title) ==
    LET rule_type    == Get(context_rule, "type")
        pattern_str  == Get(context_rule, "pattern")
        profile_name == Get(context_rule, "profile")
    IN  IF ~(TruthyStr(rule_type) /\ TruthySeq(pattern_str) /\ TruthyStr(profile_name))
        THEN None
        ELSE IF rule_type[1] = "active_window_title"
        THEN IF RegexError(pattern_str[1])
             THEN None
             ELSE IF MatchHere(pattern_str[1], current_title)
             THEN profile_name
             ELSE None
        ELSE None

\* Result of one iteration of the rule loop: Some(profile) when the rule
\* returns, None when the loop goes on to the next rule.
RuleResult(context_rule, current_title) ==
    LET rule_type    == Get(context_rule, "type")
        pattern_str  == Get(context_rule, "pattern")
        profile_name == Get(context_rule, "profile")
    IN  IF ~(TruthyStr(rule_type) /\ TruthySeq(pattern_str) /\ TruthyStr(profile_name))
        THEN None                                   \* skipped: invalid rule
        ELSE IF rule_type[1] = "active_window_title"
        THEN IF RegexError(pattern_str[1])
             THEN None                              \* re.error caught
             ELSE IF Search(pattern_str[1], current_title)
             THEN profile_name
             ELSE None
        ELSE None                                   \* unsupported rule type

\* Does the iteration on context_rule raise?  re.search raises TypeError,
\* which the handler of re.error does not catch, when the pattern is not a
\* string.
RuleRaises(context_rule, current_title) ==
    LET rule_type    == Get(context_rule, "type")
        pattern_str  == Get(context_rule, "pattern")
        profile_name == Get(context_rule, "profile")
    IN  /\ TruthyStr(rule_type) /\ TruthySeq(pattern_str) /\ TruthyStr(profile_name)
        /\ rule_type[1] = "active_window_title"
        /\ ~IsStrSeq(pattern_str[1])

RECURSIVE MatchRaises(_, _)
\* Does the rule loop raise before it returns?
MatchRaises(rules, current_title) ==
    IF rules = <<>> THEN FALSE
    ELSE IF RuleRaises(Head(rules), current_title) THEN TRUE
    ELSE IF RuleResult(Head(rules), current_title) # None THEN FALSE
    ELSE MatchRaises(Tail(rules), current_title)

RECURSIVE MatchRulesBreak(_, _)
\* Mutant of MatchRules: a rule without a profile ends the loop (`break`
\* where the code has `continue`).
MatchRulesBreak(rules, current_title) ==
    IF rules = <<>> THEN None
    ELSE LET r == RuleResult(Head(rules), current_title)
         IN  IF r # None THEN r
             ELSE IF ~TruthyStr(Get(Head(rules), "profile")) THEN None
             ELSE MatchRulesBreak(Tail(rules), current_title)

RECURSIVE MatchRules(_, _)
\* for context_rule in self.contexts: ... ; return None
MatchRules(rules, current_title) ==
    IF rules = <<>> THEN None
    ELSE LET r == RuleResult(Head(rules), current_title)
         IN  IF r # None THEN r ELSE MatchRules(Tail(rules), current_title)

\* Mutant of MatchContext: the guard tests "self.contexts" where the code
\* tests "not self.contexts".
MatchContextInverted(rules, active_window_info) ==
    IF active_window_info = None \/ rules # <<>>
    THEN None
    ELSE MatchRules(rules, active_window_info[1])

\* _match_context(active_window_info) against the rule list `rules`.
MatchContext(rules, active_window_info) ==
    IF active_window_info = None \/ rules = <<>>
    THEN None
    ELSE MatchRules(rules, active_window_info[1])

_match_context(active_window_info) == MatchContext(contexts, active_window_info)

\* Does _match_context(active_window_info) raise instead of returning?
MatchContextRaises(rules, active_window_info) ==
    /\ active_window_info # None
    /\ rules # <<>>
    /\ MatchRaises(rules, active_window_info[1])

-----------------------------------------------------------------------------
(* Window titles, rules and configurations the model is run on *)

Chrome   == <<"C","h","r","o","m","e">>
Notepad  == <<"N","o","t","e","p","a","d">>
Explorer == <<"E","x","p","l","o","r","e","r">>
Alpha    == <<"A","l","p","h","a">>
Other    == <<"O","t","h","e","r">>

\* What _get_active_window_info can return in the monitor runs: None, or a
\* window info with one of these titles.
Titles == {Chrome, Notepad}
Observations == {None} \cup {Some(t) : t \in Titles}

Rule(type, pattern, profile) ==
    [type |-> type, pattern |-> pattern, profile |-> profile]

NotepadRule  == Rule("active_window_title", Notepad, "WorkProfile")
LowerRule    == Rule("active_window_title", <<"n","o","t","e">>, "WorkProfile")
AnyRule      == Rule("active_window_title", <<".","*">>, "Default")
BadRegexRule == Rule("active_window_title", <<"*">>, "Default")

\* The loaded "mcp_profiles" section: its keys, self.contexts and
\* self.default_profile as __init__ reads them.
Config(keys, rules, default) ==
    [keys |-> keys, contexts |-> rules, default_profile |-> default]

\* The section `cfg` with "monitor_interval_seconds": n added.
WithInterval(cfg, n) ==
    [keys |-> cfg.keys \cup {"monitor_interval_seconds"},
     contexts |-> cfg.contexts, default_profile |-> cfg.default_profile,
     monitor_interval_seconds |-> n]

Configs ==
    { Config({"contexts", "default_profile"}, <<NotepadRule>>, Some("Default")),
      WithInterval(Config({"contexts"}, <<BadRegexRule, LowerRule, AnyRule>>, None), 5),
      Config({"default_profile"}, <<>>, Some("Default")),
      Config({}, <<>>, None) }

-----------------------------------------------------------------------------
(* The configuration file and MCPHandler._load_config *)

DEFAULT_MONITOR_INTERVAL == 10

\* A parsed JSON value: an object (with the keys it holds and, when it has
\* one, its "mcp_profiles" section) or a value that is not an object.
EmptySection == Config({}, <<>>, None)
EmptyObject == [json |-> "object", keys |-> {}, mcp_profiles |-> EmptySection]
Document(cfg) ==
    [json |-> "object", keys |-> {"mcp_profiles"}, mcp_profiles |-> cfg]
ArrayDocument == [json |-> "array", keys |-> {}, mcp_profiles |-> EmptySection]

\* The outcome of a call that raised instead of returning a value.
Raised == [json |-> "raise", keys |-> {}, mcp_profiles |-> EmptySection]

\* The file at config_path: absent, present but not readable, present with
\* text that is not JSON, or present with the JSON value `doc`.
MissingFile    == [kind |-> "missing", doc |-> EmptyObject]
UnreadableFile == [kind |-> "unreadable", doc |-> EmptyObject]
MalformedFile  == [kind |-> "malformed", doc |-> EmptyObject]
JsonFile(doc)  == [kind |-> "json", doc |-> doc]

ConfigFiles ==
    {MissingFile, UnreadableFile, MalformedFile,
     JsonFile(EmptyObject), JsonFile(ArrayDocument)}
        \cup {JsonFile(Document(cfg)) : cfg \in Configs}

\* Mutant of LoadConfig: json.JSONDecodeError is not caught.
LoadConfigUncaught(file) ==
    IF file.kind = "missing" THEN EmptyObject
    ELSE IF file.kind = "malformed" THEN Raised
    ELSE IF file.kind = "unreadable" THEN EmptyObject
    ELSE file.doc

\* _load_config: {} for a missing file, for a JSONDecodeError and for an
\* IOError, and otherwise whatever json.load returned.
LoadConfig(file) ==
    IF file.kind = "missing" THEN EmptyObject
    ELSE IF file.kind = "malformed" THEN EmptyObject
    ELSE IF file.kind = "unreadable" THEN EmptyObject
    ELSE file.doc

\* self.config.get("mcp_profiles", {})
SectionOf(config) ==
    IF "mcp_profiles" \in config.keys THEN config.mcp_profiles ELSE EmptySection

\* self.mcp_config.get("monitor_interval_seconds", DEFAULT_MONITOR_INTERVAL)
MonitorInterval(cfg) ==
    IF "monitor_interval_seconds" \in cfg.keys
    THEN cfg.monitor_interval_seconds
    ELSE DEFAULT_MONITOR_INTERVAL

-----------------------------------------------------------------------------
(* Loop threads *)

Loops == 1..MaxLoops

\* A loop id with no thread: the locals of _monitor_loop are unset.  A loop
\* keeps active_info until its last use in the iteration, and target_profile
\* and success until the iteration ends.
NoLoop ==
    [pc |-> "none", active_info |-> None, target_profile |-> None,
     success |-> None]

\* threading.Thread.is_alive()
IsAlive(t) == loops[t].pc \notin {"none", "dead"}

\* self._monitor_thread and self._monitor_thread.is_alive()
Running == _monitor_thread # None /\ IsAlive(_monitor_thread[1])

-----------------------------------------------------------------------------
(* MCPHandler.__init__ *)

HandlerInit(cfg) ==
    /\ monitor_interval = MonitorInterval(cfg)
    /\ mcp_config = cfg.keys
    /\ contexts = cfg.contexts
    /\ default_profile = cfg.default_profile
    /\ current_profile = None
    /\ last_active_window_title = None
    /\ _stop_event = FALSE
    /\ _monitor_thread = None
    /\ loops = [t \in Loops |-> NoLoop]
    /\ caller = "idle"

\* MCPHandler(sound_manager, config_path) with `file` at config_path.  When
\* _load_config raises, or returns a value without a get method (line 52
\* raises AttributeError), no monitor comes into being.
Construct(file) ==
    /\ config_file = file
    /\ LET config == LoadConfig(file)
       IN  IF config.json = "object"
           THEN /\ constructed = TRUE
                /\ HandlerInit(SectionOf(config))
           ELSE /\ constructed = FALSE
                /\ HandlerInit(EmptySection)

-----------------------------------------------------------------------------
(* MCPHandler.start_monitoring and stop_monitoring *)

\* The loop table once the ended Thread object the handle referred to is
\* dropped.
Released ==
    IF _monitor_thread # None /\ ~IsAlive(_monitor_thread[1])
    THEN [loops EXCEPT ![_monitor_thread[1]] = NoLoop]
    ELSE loops

FreeLoops(table) == {t \in Loops : table[t].pc = "none"}

\* Mutant of AlreadyRunning: start_monitoring without the is_alive check.
NeverAlreadyRunning == FALSE

\* if self._monitor_thread and self._monitor_thread.is_alive(): return
AlreadyRunning == Running

\* Mutant of MonitoringDisabled: start_monitoring without the configuration
\* check.
MonitoringDisabledNever == FALSE

\* if not self.mcp_config: return   (an empty dict is falsy)
MonitoringDisabled == mcp_config = {}

\* Mutant of StartMonitoring: a start that launches a loop also resets the
\* runtime state, as __init__ sets it.
StartMonitoringResets ==
    /\ constructed
    /\ caller = "idle"
    /\ ~MonitoringDisabled
    /\ ~AlreadyRunning
    /\ FreeLoops(Released) # {}
    /\ LET new == CHOOSE t \in FreeLoops(Released) :
                      \A u \in FreeLoops(Released) : t <= u
       IN  /\ _stop_event' = FALSE
           /\ _monitor_thread' = Some(new)
           /\ loops' = [Released EXCEPT ![new].pc = "start"]
    /\ current_profile' = None
    /\ last_active_window_title' = None
    /\ UNCHANGED <<config_file, constructed, monitor_interval,
                   mcp_config, contexts, default_profile, caller>>

StartMonitoring ==
    /\ constructed
    /\ caller = "idle"
    /\ IF MonitoringDisabled
       THEN UNCHANGED <<_stop_event, _monitor_thread, loops>>
       ELSE IF AlreadyRunning
       THEN UNCHANGED <<_stop_event, _monitor_thread, loops>>
       ELSE /\ FreeLoops(Released) # {}
            /\ LET new == CHOOSE t \in FreeLoops(Released) :
                              \A u \in FreeLoops(Released) : t <= u
               IN  /\ _stop_event' = FALSE
                   /\ _monitor_thread' = Some(new)
                   /\ loops' = [Released EXCEPT ![new].pc = "start"]
    /\ UNCHANGED <<config_file, constructed, monitor_interval,
                   mcp_config, contexts, default_profile, current_profile,
                   last_active_window_title, caller>>

\* stop_monitoring up to the join: the caller blocks in Thread.join.
StopMonitoring ==
    /\ constructed
    /\ caller = "idle"
    /\ IF Running
       THEN /\ _stop_event' = TRUE
            /\ caller' = "joining"
       ELSE UNCHANGED <<_stop_event, caller>>
    /\ UNCHANGED <<config_file, constructed, monitor_interval,
                   mcp_config, contexts, default_profile, current_profile,
                   last_active_window_title, _monitor_thread, loops>>

\* Thread.join(timeout) returns: the thread has ended, or the timeout ran out
\* while the thread was still inside load_sound_profile.  Either way the
\* handle is cleared.
JoinReturn ==
    /\ caller = "joining"
    /\ loops[_monitor_thread[1]].pc \in {"dead", "applying"}
    /\ caller' = "idle"
    /\ _monitor_thread' = None
    /\ loops' = Released
    /\ UNCHANGED <<config_file, constructed, monitor_interval,
                   mcp_config, contexts, default_profile, current_profile,
                   last_active_window_title, _stop_event>>

-----------------------------------------------------------------------------
(* MCPHandler._monitor_loop *)

\* The thread of loop t has ended: the Thread object stays (not alive) while
\* the handle refers to it and is gone otherwise.
Ended(t) ==
    IF _monitor_thread = Some(t) THEN [NoLoop EXCEPT !.pc = "dead"] ELSE NoLoop

\* The loop condition and the window query: from the start of the thread or
\* from the end of a sleep, the loop ends if the stop event is set and
\* otherwise queries the foreground window, which yields `observed`.
LoopCheck(t, observed) ==
    /\ loops[t].pc \in {"start", "sleeping", "waiting"}
    /\ loops' = [loops EXCEPT ![t] =
                    IF _stop_event
                    THEN Ended(t)
                    ELSE [NoLoop EXCEPT !.pc = "queried",
                                        !.active_info = observed]]
    /\ UNCHANGED <<config_file, constructed, monitor_interval,
                   mcp_config, contexts, default_profile, current_profile,
                   last_active_window_title, _stop_event, _monitor_thread,
                   caller>>

\* if active_info and active_info["title"] == self.last_active_window_title
TitleUnchanged(active_info, last_title) ==
    active_info # None /\ active_info = last_title

\* Mutant of TargetProfile: the default profile is not consulted.
TargetProfileNoDefault(matched_profile, default) == matched_profile

\* target_profile = matched_profile or self.default_profile
TargetProfile(matched_profile, default) ==
    IF TruthyStr(matched_profile) THEN matched_profile ELSE default

\* Mutant of ShouldApply: the comparison with current_profile is dropped.
ShouldApplyAlways(target_profile, current) == TruthyStr(target_profile)

\* Mutant of ShouldApply: the test `if target_profile` is dropped.
ShouldApplyUnset(target_profile, current) == target_profile # current

\* if target_profile != self.current_profile: if target_profile: (apply)
ShouldApply(target_profile, current) ==
    target_profile # current /\ TruthyStr(target_profile)

\* The rest of the iteration up to the next blocking call: time.sleep on an
\* unchanged title, load_sound_profile when a profile is to be applied, and
\* the wait on the stop event otherwise.  An exception raised by
\* _match_context is caught nowhere and ends the thread.
Tick(t) ==
    /\ loops[t].pc = "queried"
    /\ LET active_info == loops[t].active_info
       IN  IF TitleUnchanged(active_info, last_active_window_title)
           THEN /\ loops' = [loops EXCEPT ![t] = [NoLoop EXCEPT !.pc = "sleeping"]]
                /\ UNCHANGED last_active_window_title
           ELSE \E matched_profile \in {_match_context(active_info)},
                   raised \in {MatchContextRaises(contexts, active_info)} :
                LET target_profile == TargetProfile(matched_profile, default_profile)
                IN  /\ last_active_window_title' = active_info
                    /\ loops' = [loops EXCEPT ![t] =
                          IF raised
                          THEN Ended(t)
                          ELSE IF ShouldApply(target_profile, current_profile)
                          THEN [@ EXCEPT !.pc = "applying",
                                         !.target_profile = target_profile]
                          ELSE [NoLoop EXCEPT !.pc = "waiting",
                                              !.target_profile = target_profile]]
    /\ UNCHANGED <<config_file, constructed, monitor_interval,
                   mcp_config, contexts, default_profile, current_profile,
                   _stop_event, _monitor_thread, caller>>

\* Mutant of ProfileAfterApply: current_profile is set whatever apply returned.
ProfileAfterApplyAlways(success, target_profile, current) == target_profile

\* Mutant of ProfileAfterApply: a failed apply unsets current_profile.
ProfileAfterApplyUnsets(success, target_profile, current) ==
    IF success THEN target_profile ELSE None

\* self.current_profile after load_sound_profile returned `success`.
ProfileAfterApply(success, target_profile, current) ==
    IF success THEN target_profile ELSE current

\* load_sound_profile(target_profile) raises: the name reaches re.match in
\* _is_valid_profile_name (src/profile_manager.py line 32), which raises
\* TypeError when the name is not a string.
ApplyRaises(target_profile) == ~IsStr(target_profile[1])

\* load_sound_profile(target_profile) ends: it returns `success`, or it
\* raises, and the exception, caught nowhere, ends the thread.
ApplyReturn(t, success) ==
    /\ loops[t].pc = "applying"
    /\ IF ApplyRaises(loops[t].target_profile)
       THEN /\ loops' = [loops EXCEPT ![t] = Ended(t)]
            /\ UNCHANGED current_profile
       ELSE /\ current_profile' =
                   ProfileAfterApply(success, loops[t].target_profile, current_profile)
            /\ loops' = [loops EXCEPT ![t] =
                            [NoLoop EXCEPT !.pc = "waiting",
                                           !.target_profile = loops[t].target_profile,
                                           !.success = Some(success)]]
    /\ UNCHANGED <<config_file, constructed, monitor_interval,
                   mcp_config, contexts, default_profile,
                   last_active_window_title, _stop_event, _monitor_thread,
                   caller>>

-----------------------------------------------------------------------------
(* The profile store (src/profile_manager.py) and the Sound Store           *)
(* (src/registry_handler.py).                                               *)
(*                                                                          *)
(* A Python value is a pair <<type, what it holds>>; a dict keeps its items *)
(* in insertion order, as a sequence of <<key, value>> with distinct keys.  *)
(* The text of a file is a JSON value, tagged likewise, or NotJson.  A      *)
(* string value is a sequence: a profile name is spelled character by       *)
(* character, a path is a single element, and the empty string is <<>>.     *)
(* The keys of a dict (categories, sub-events, "name", "sounds") are        *)
(* strings.                                                                 *)
(*                                                                          *)
(* An operator's argument is evaluated anew at each use of the parameter.   *)
(* A value that is costly to compute and used more than once is therefore   *)
(* bound by a quantifier or a CHOOSE over the singleton set that holds it.  *)

PyNone == <<"NoneType", <<>>>>
PyStr(s) == <<"str", s>>
PyInt(n) == <<"int", n>>
PyList(items) == <<"list", items>>
PyDict(items) == <<"dict", items>>

JNull == <<"null", <<>>>>
JString(s) == <<"string", s>>
JNumber(n) == <<"number", n>>
JArray(elements) == <<"array", elements>>
JObject(members) == <<"object", members>>
NotJson == <<"invalid", <<>>>>

\* The type tag of a value and what it holds.
TypeOf(value) == value[1]
Held(value) == value[2]

\* key in d, d.get(key, default) and d[key] of a dict d.
HasKey(d, key) == \E i \in 1..Len(Held(d)) : Held(d)[i][1] = key
DictGet(d, key, default) ==
    IF HasKey(d, key)
    THEN Held(d)[CHOOSE i \in 1..Len(Held(d)) : Held(d)[i][1] = key][2]
    ELSE default

\* The items of the dict json.load builds from the members of an object: a
\* key stands where it first occurs, with the value of its last occurrence.
DictFromMembers(members) ==
    LET n == Len(members)
        IsFirst(i) == \A k \in 1..(i - 1) : members[k][1] # members[i][1]
        firsts == SelectSeq([i \in 1..n |-> i], IsFirst)
        LastOf(key) == CHOOSE i \in 1..n :
                          /\ members[i][1] = key
                          /\ \A k \in (i + 1)..n : members[k][1] # key
    IN  [p \in 1..Len(firsts) |->
            <<members[firsts[p]][1], members[LastOf(members[firsts[p]][1])][2]>>]

RECURSIVE JsonLoad(_)
\* json.load of a text that is JSON.
JsonLoad(text) ==
    IF TypeOf(text) = "null" THEN PyNone
    ELSE IF TypeOf(text) = "string" THEN PyStr(Held(text))
    ELSE IF TypeOf(text) = "number" THEN PyInt(Held(text))
    ELSE IF TypeOf(text) = "array"
    THEN PyList([i \in 1..Len(Held(text)) |-> JsonLoad(Held(text)[i])])
    ELSE CHOOSE d \in
             { PyDict([p \in 1..Len(m) |-> <<m[p][1], JsonLoad(m[p][2])>>]) :
                   m \in {DictFromMembers(Held(text))} } : TRUE

RECURSIVE JsonDumpEmptyAsNull(_)
\* Mutant of JsonDump: a dict without items is written as null.
JsonDumpEmptyAsNull(value) ==
    IF TypeOf(value) = "NoneType" THEN JNull
    ELSE IF TypeOf(value) = "str" THEN JString(Held(value))
    ELSE IF TypeOf(value) = "int" THEN JNumber(Held(value))
    ELSE IF TypeOf(value) = "list"
    THEN JArray([i \in 1..Len(Held(value)) |-> JsonDumpEmptyAsNull(Held(value)[i])])
    ELSE IF Held(value) = <<>> THEN JNull
    ELSE JObject([i \in 1..Len(Held(value)) |->
                     <<Held(value)[i][1], JsonDumpEmptyAsNull(Held(value)[i][2])>>])

RECURSIVE JsonDump(_)
\* json.dump of a value made of dicts with string keys, lists, strings,
\* integers and None.
JsonDump(value) ==
    IF TypeOf(value) = "NoneType" THEN JNull
    ELSE IF TypeOf(value) = "str" THEN JString(Held(value))
    ELSE IF TypeOf(value) = "int" THEN JNumber(Held(value))
    ELSE IF TypeOf(value) = "list"
    THEN JArray([i \in 1..Len(Held(value)) |-> JsonDump(Held(value)[i])])
    ELSE JObject([i \in 1..Len(Held(value)) |->
                     <<Held(value)[i][1], JsonDump(Held(value)[i][2])>>])

-----------------------------------------------------------------------------
(* The Sound Store: the keys under AppEvents\Schemes\Apps\.Default of HKCU. *)
(* registry[category][sub_event] is the default value of the sub-event's    *)
(* key; the empty string is a sound that is not set.                        *)

\* Event categories and sub-events, in the order winreg.EnumKey yields them.
Categories == <<"SystemAsterisk", "SystemExit", "MailBeep">>
SubEvents == <<".Current", ".Default">>

Ding      == <<"C:/media/ding.wav">>
Chord     == <<"C:/Windows/media/chord.wav">>
VarChord  == <<"%SystemRoot%/media/chord.wav">>

\* os.path.exists on a sound file path.
ExistingFiles == {Ding, Chord}

\* os.path.expandvars
ExpandVars(value) == IF value = VarChord THEN Chord ELSE value

\* The members of `order` that are in `keys`, in that order.
Enumerate(keys, order) ==
    LET Present(k) == k \in keys IN SelectSeq(order, Present)

\* Mutant of GetSoundFilePath: the value is returned as stored, variables
\* not expanded.
GetSoundFilePathRaw(reg, event_category, sub_event) ==
    IF /\ event_category \in DOMAIN reg
       /\ sub_event \in DOMAIN reg[event_category]
       /\ reg[event_category][sub_event] # <<>>
    THEN PyStr(reg[event_category][sub_event])
    ELSE PyNone

\* get_sound_file_path(event_category, sub_event, "HKCU")
GetSoundFilePath(reg, event_category, sub_event) ==
    IF /\ event_category \in DOMAIN reg
       /\ sub_event \in DOMAIN reg[event_category]
       /\ reg[event_category][sub_event] # <<>>
    THEN PyStr(ExpandVars(reg[event_category][sub_event]))
    ELSE PyNone

\* list_sound_events("HKCU"): every category with every sub-event and the
\* path read for it.
ListSoundEvents(reg) ==
    LET categories == Enumerate(DOMAIN reg, Categories)
        SubEventsOf(c) == Enumerate(DOMAIN reg[c], SubEvents)
    IN  PyDict([i \in 1..Len(categories) |->
            <<categories[i],
              PyDict([k \in 1..Len(SubEventsOf(categories[i])) |->
                  <<SubEventsOf(categories[i])[k],
                    GetSoundFilePath(reg, categories[i],
                                     SubEventsOf(categories[i])[k])>>])>>])

\* set_sound_file_path(event_category, sound_file_path, sub_event): the
\* value it returns.  `denied` holds the <<category, sub-event>> keys whose
\* write raises PermissionError.
SetSucceeds(event_category, sound_file_path, sub_event, denied) ==
    /\ sound_file_path \in ExistingFiles \/ sound_file_path = <<>>
    /\ <<event_category, sub_event>> \notin denied

\* The registry after winreg.CreateKeyEx and SetValueEx on the key.
RegistryWrite(reg, event_category, sound_file_path, sub_event) ==
    [c \in DOMAIN reg \cup {event_category} |->
        IF c = event_category
        THEN [s \in (IF c \in DOMAIN reg THEN DOMAIN reg[c] ELSE {}) \cup {sub_event} |->
                 IF s = sub_event THEN sound_file_path ELSE reg[c][s]]
        ELSE reg[c]]

-----------------------------------------------------------------------------
(* Profile names and profile files *)


\* The character class [a-zA-Z0-9_\- ]
NameChars ==
    {UpperCase[i] : i \in 1..Len(UpperCase)}
        \cup {LowerCase[i] : i \in 1..Len(LowerCase)}
        \cup {"0", "1", "2", "3", "4", "5", "6", "7", "8", "9"}
        \cup {"_", "-", " "}

\* re.match(r"^[a-zA-Z0-9_\- ]+$", name): "$" matches at the end of the
\* string and also just before a newline that ends the string.
NameRegexMatches(name) ==
    LET body == IF name # <<>> /\ name[Len(name)] = "\n"
                THEN SubSeq(name, 1, Len(name) - 1)
                ELSE name
    IN  /\ body # <<>>
        /\ \A i \in 1..Len(body) : body[i] \in NameChars

\* _is_valid_profile_name
IsValidProfileName(name) ==
    IF name = <<>> THEN FALSE
    ELSE NameRegexMatches(name) /\ name[1] # "."

\* _get_profile_path: None for an invalid name, else the path of the file
\* <name>.json in the profile directory, which the name determines.
GetProfilePath(profile_name) ==
    IF ~IsValidProfileName(profile_name) THEN None ELSE Some(profile_name)

\* Windows refuses a file name that holds a control character: open raises
\* OSError for it and os.path.exists is False.
FileNameAllowed(profile_name) ==
    \A i \in 1..Len(profile_name) : profile_name[i] # "\n"

\* os.path.exists(profile_path)
PathExists(dir, profile_name) == profile_name \in DOMAIN dir

\* The directory after the file of profile_name is written with `text`, and
\* after it is removed.
FileWrite(dir, profile_name, text) ==
    [n \in DOMAIN dir \cup {profile_name} |->
        IF n = profile_name THEN text ELSE dir[n]]
FileRemove(dir, profile_name) ==
    [n \in DOMAIN dir \ {profile_name} |-> dir[n]]

\* load_profile(profile_name) on the directory `dir`: the loaded dict, or
\* None.  `readable` is FALSE when reading the file raises IOError.
load_profile(dir, profile_name, readable) ==
    IF GetProfilePath(profile_name) = None \/ ~PathExists(dir, profile_name)
    THEN PyNone
    ELSE IF ~readable THEN PyNone
    ELSE IF dir[profile_name] = NotJson THEN PyNone       \* JSONDecodeError
    ELSE CHOOSE result \in
             { IF /\ TypeOf(profile_data) = "dict"
                  /\ HasKey(profile_data, "name")
                  /\ HasKey(profile_data, "sounds")
               THEN profile_data
               ELSE PyNone : profile_data \in {JsonLoad(dir[profile_name])} } : TRUE

-----------------------------------------------------------------------------
(* apply_profile *)

RECURSIVE FlattenSoundsBreak(_, _)
\* Mutant of FlattenSounds: a category whose value is not a dict ends the
\* loop over the categories.
FlattenSoundsBreak(items, n) ==
    IF n = 0 THEN <<>>
    ELSE LET category   == items[n][1]
             sub_events == items[n][2]
             before     == FlattenSoundsBreak(items, n - 1)
         IN  IF \E k \in 1..n : TypeOf(items[k][2]) # "dict" THEN
                 FlattenSoundsBreak(items, (CHOOSE k \in 1..n :
                     /\ TypeOf(items[k][2]) # "dict"
                     /\ \A j \in 1..(k - 1) : TypeOf(items[j][2]) = "dict") - 1)
             ELSE before \o [k \in 1..Len(Held(sub_events)) |->
                               <<category, Held(sub_events)[k][1], Held(sub_events)[k][2]>>]

RECURSIVE FlattenSounds(_, _)
\* The <<category, sub_event, sound_file_path>> the two nested loops of
\* apply_profile go through in the first n categories of `items`, in their
\* order: a category whose value is not a dict is skipped.
FlattenSounds(items, n) ==
    IF n = 0 THEN <<>>
    ELSE LET category   == items[n][1]
             sub_events == items[n][2]
             before     == FlattenSounds(items, n - 1)
         IN  IF TypeOf(sub_events) # "dict" THEN before
             ELSE before \o [k \in 1..Len(Held(sub_events)) |->
                               <<category, Held(sub_events)[k][1], Held(sub_events)[k][2]>>]

\* The state of apply_profile before its loops.
ApplyStart(reg) ==
    [registry |-> reg, success_count |-> 0, fail_count |-> 0,
     total_sounds |-> 0, attempted |-> <<>>]

\* Mutant of ApplyOne: the first failed write ends the loop (the remaining
\* bindings are not attempted).
ApplyOneStopAtFailure(st, binding, denied) ==
    LET category    == binding[1]
        sub_event   == binding[2]
        path_to_set == IF TypeOf(binding[3]) = "NoneType" THEN PyStr(<<>>) ELSE binding[3]
    IN  IF st.fail_count > 0 THEN st
        ELSE IF TypeOf(path_to_set) # "str"
        THEN [st EXCEPT !.total_sounds = @ + 1, !.fail_count = @ + 1]
        ELSE IF SetSucceeds(category, Held(path_to_set), sub_event, denied)
        THEN [st EXCEPT !.total_sounds = @ + 1, !.success_count = @ + 1,
                        !.attempted = Append(@, <<category, sub_event>>),
                        !.registry = RegistryWrite(@, category, Held(path_to_set), sub_event)]
        ELSE [st EXCEPT !.total_sounds = @ + 1, !.fail_count = @ + 1,
                        !.attempted = Append(@, <<category, sub_event>>)]

\* One iteration of the inner loop of apply_profile.  `attempted` lists the
\* keys set_sound_file_path was called on.
ApplyOne(st, binding, denied) ==
    LET category    == binding[1]
        sub_event   == binding[2]
        path_to_set == IF TypeOf(binding[3]) = "NoneType" THEN PyStr(<<>>) ELSE binding[3]
    IN  IF TypeOf(path_to_set) # "str"
        THEN [st EXCEPT !.total_sounds = @ + 1, !.fail_count = @ + 1]
        ELSE IF SetSucceeds(category, Held(path_to_set), sub_event, denied)
        THEN [st EXCEPT !.total_sounds = @ + 1, !.success_count = @ + 1,
                        !.attempted = Append(@, <<category, sub_event>>),
                        !.registry = RegistryWrite(@, category, Held(path_to_set), sub_event)]
        ELSE [st EXCEPT !.total_sounds = @ + 1, !.fail_count = @ + 1,
                        !.attempted = Append(@, <<category, sub_event>>)]

RECURSIVE ApplyBindings(_, _, _, _)
\* The loops of apply_profile over the first n of `bindings`, from the
\* registry `reg`.
ApplyBindings(bindings, n, reg, denied) ==
    IF n = 0 THEN ApplyStart(reg)
    ELSE ApplyOne(ApplyBindings(bindings, n - 1, reg, denied), bindings[n], denied)

\* Mutant of ApplyResult: success as soon as one binding was written.
ApplyResultAnyWritten(st) ==
    IF st.success_count > 0 THEN TRUE
    ELSE IF st.total_sounds = 0 THEN TRUE
    ELSE FALSE

\* The value apply_profile returns after its loops.
ApplyResult(st) ==
    IF st.fail_count > 0 THEN FALSE
    ELSE IF st.total_sounds = 0 THEN TRUE
    ELSE TRUE

\* apply_profile(profile_name): the value returned and the registry left,
\* as the final state of the loops; None when it returns before them.
apply_profile(dir, reg, profile_name, readable, denied) ==
    CHOOSE applied \in
        { IF TypeOf(profile_data) = "NoneType" THEN None
          ELSE CHOOSE st \in
                   { IF TypeOf(sounds_to_apply) # "dict" THEN None
                     ELSE CHOOSE final \in
                              { Some(ApplyBindings(bindings, Len(bindings), reg, denied)) :
                                    bindings \in {FlattenSounds(Held(sounds_to_apply),
                                                                Len(Held(sounds_to_apply)))} } : TRUE :
                         sounds_to_apply \in
                             {DictGet(profile_data, "sounds", PyDict(<<>>))} } : TRUE :
              profile_data \in {load_profile(dir, profile_name, readable)} } : TRUE

-----------------------------------------------------------------------------
(* The operations of the profile store, one call at a time.  `op` records   *)
(* the latest call: its argument, what it returned, whether it read the     *)
(* Sound Store, the registry keys it tried to write and the environment it  *)
(* ran in.                                                                  *)

PyBool(b) == <<"bool", b>>

NoOp ==
    [kind |-> "none", name |-> <<>>, result |-> PyNone, read_store |-> FALSE,
     attempted |-> <<>>, readable |-> TRUE, denied |-> {}]

Call(kind, profile_name, result) ==
    [NoOp EXCEPT !.kind = kind, !.name = profile_name, !.result = result]

\* save_profile(profile_name).  io is what the file system does: "ok",
\* "open_fails" (open raises, nothing is written) or "write_fails" (the file
\* was opened, hence truncated, and json.dump raised before it was whole).
SaveProfile(profile_name, io) ==
    LET profile_path   == GetProfilePath(profile_name)
        current_sounds == ListSoundEvents(registry)
        profile_data   == PyDict(<< <<"name", PyStr(profile_name)>>,
                                    <<"sounds", current_sounds>> >>)
    IN  /\ io # "open_fails" => FileNameAllowed(profile_name)
        /\ profile_path = None => io = "ok"          \* no file is opened
        /\ IF profile_path = None
           THEN /\ op' = Call("save", profile_name, PyBool(FALSE))
                /\ UNCHANGED profile_dir
           ELSE IF io = "ok"
           THEN /\ profile_dir' = FileWrite(profile_dir, profile_name,
                                            JsonDump(profile_data))
                /\ op' = [Call("save", profile_name, PyBool(TRUE))
                             EXCEPT !.read_store = TRUE]
           ELSE IF io = "write_fails"
           THEN /\ profile_dir' = FileWrite(profile_dir, profile_name, NotJson)
                /\ op' = [Call("save", profile_name, PyBool(FALSE))
                             EXCEPT !.read_store = TRUE]
           ELSE /\ UNCHANGED profile_dir
                /\ op' = [Call("save", profile_name, PyBool(FALSE))
                             EXCEPT !.read_store = TRUE]
        /\ UNCHANGED registry

\* load_profile(profile_name)
LoadProfile(profile_name, readable) ==
    /\ ~readable => /\ GetProfilePath(profile_name) # None   \* a file is read
                    /\ PathExists(profile_dir, profile_name)
    /\ \E profile_data \in {load_profile(profile_dir, profile_name, readable)} :
           op' = [Call("load", profile_name, profile_data)
                     EXCEPT !.readable = readable]
    /\ UNCHANGED <<registry, profile_dir>>

\* apply_profile(profile_name)
ApplyProfile(profile_name, readable, denied) ==
    \E applied \in {apply_profile(profile_dir, registry, profile_name,
                                   readable, denied)} :
        /\ ~readable => /\ GetProfilePath(profile_name) # None   \* a file is read
                        /\ PathExists(profile_dir, profile_name)
        /\ applied = None => denied = {}              \* no key is written
        /\ IF applied = None
           THEN /\ op' = [Call("apply", profile_name, PyBool(FALSE))
                             EXCEPT !.readable = readable, !.denied = denied]
                /\ UNCHANGED registry
           ELSE /\ op' = [Call("apply", profile_name,
                               PyBool(ApplyResult(applied[1])))
                             EXCEPT !.readable = readable, !.denied = denied,
                                    !.attempted = applied[1].attempted]
                /\ registry' = applied[1].registry
        /\ UNCHANGED profile_dir

\* Profile names the operations are called with, in the order os.listdir
\* yields their files.
Work        == <<"W", "o", "r", "k">>
Game        == <<"G", "a", "m", "e">>
ProfileNames ==
    <<Work, Game, <<"a", "/", "b">>, <<".", "x">>, <<"W", "\n">>, <<>>>>

\* list_profiles(): every file of the directory is a <name>.json.
ListProfiles ==
    /\ op' = Call("list", <<>>,
                  PyList(Enumerate(DOMAIN profile_dir, ProfileNames)))
    /\ UNCHANGED <<registry, profile_dir>>

\* delete_profile(profile_name); removable is FALSE when os.remove raises.
DeleteProfile(profile_name, removable) ==
    /\ ~removable => /\ GetProfilePath(profile_name) # None  \* a file is removed
                     /\ PathExists(profile_dir, profile_name)
    /\ IF GetProfilePath(profile_name) = None
       THEN /\ op' = Call("delete", profile_name, PyBool(FALSE))
            /\ UNCHANGED profile_dir
       ELSE IF ~PathExists(profile_dir, profile_name)
       THEN /\ op' = Call("delete", profile_name, PyBool(FALSE))
            /\ UNCHANGED profile_dir
       ELSE IF removable
       THEN /\ profile_dir' = FileRemove(profile_dir, profile_name)
            /\ op' = Call("delete", profile_name, PyBool(TRUE))
       ELSE /\ op' = Call("delete", profile_name, PyBool(FALSE))
            /\ UNCHANGED profile_dir
    /\ UNCHANGED registry

-----------------------------------------------------------------------------
(* The store on sample registries and profile files *)

\* A profile file as save_profile writes it.
ProfileText(profile_name, sounds) ==
    JObject(<< <<"name", JString(profile_name)>>, <<"sounds", sounds>> >>)


\* Three bindings, one per category.
ThreeBindings ==
    JObject(<< <<"SystemAsterisk", JObject(<< <<".Current", JString(Ding)>> >>)>>,
               <<"SystemExit",     JObject(<< <<".Current", JNull>> >>)>>,
               <<"MailBeep",       JObject(<< <<".Current", JString(Chord)>> >>)>> >>)

\* A path that is a number, and a path to a file that does not exist.
NumberPath ==
    JObject(<< <<"SystemAsterisk", JObject(<< <<".Current", JNumber(7)>>,
                                            <<".Default", JString(Ding)>> >>)>> >>)
GonePath ==
    JObject(<< <<"SystemAsterisk",
                 JObject(<< <<".Current", JString(<<"C:/media/gone.wav">>)>> >>)>>,
               <<"MailBeep",       JObject(<< <<".Current", JString(Ding)>> >>)>> >>)

\* A category whose value is not a mapping of sub-events.
BadCategory ==
    JObject(<< <<"SystemAsterisk", JString(Ding)>>,
               <<"MailBeep", JObject(<< <<".Current", JString(Ding)>> >>)>> >>)

\* Texts a file named Game.json can hold; two of them hold no binding at
\* all: no category, and a category without sub-events.
SampleTexts ==
    { ProfileText(Game, ThreeBindings), ProfileText(Game, NumberPath),
      ProfileText(Game, GonePath), ProfileText(Game, BadCategory),
      ProfileText(Game, JObject(<<>>)),
      ProfileText(Game, JObject(<< <<"SystemExit", JObject(<<>>)>> >>)),
      ProfileText(Game, JArray(<<>>)), ProfileText(Game, JNumber(7)),
      JObject(<< <<"sounds", JObject(<<>>)>> >>),
      JObject(<< <<"name", JString(Game)>> >>),
      JArray(<<>>), JString(Game), NotJson }

SampleDirectories ==
    {<<>>} \cup {[n \in {Game} |-> text] : text \in SampleTexts}

SampleRegistries ==
    { <<>>,
      [c \in {"SystemAsterisk", "SystemExit", "MailBeep"} |->
          IF c = "SystemAsterisk"
          THEN [s \in {".Current", ".Default"} |->
                   IF s = ".Current" THEN Ding ELSE <<>>]
          ELSE IF c = "MailBeep"
          THEN [s \in {".Current"} |-> VarChord]
          ELSE <<>>] }

\* The registry keys whose write is denied, per call of apply_profile.
DeniedSets ==
    { {}, {<<"SystemExit", ".Current">>},
      {<<"SystemAsterisk", ".Current">>, <<"MailBeep", ".Current">>} }

-----------------------------------------------------------------------------
(* The command line (src/cli.py): one run of main per command.  `process`   *)
(* records the latest run: its arguments, what the manager's operation      *)
(* returned ("raises", "ImportError" or "Exception" when it raised, "" when *)
(* it was not called), the lines printed and the exit code.                 *)

NotRun == [argv |-> <<>>, result |-> "", stdout |-> <<>>, exit_code |-> 0]

\* main, from the call of the command's handler to sys.exit(exit_code): the
\* handler returns, or calls sys.exit(1), or raises an exception that main
\* catches and logs.
main(argv, result, stdout, ending) ==
    process' = [argv |-> argv, result |-> result, stdout |-> stdout,
                exit_code |-> IF ending = "return" THEN 0 ELSE 1]

\* list [--filter REGEX] [--show-unset].  sounds is what list_system_sounds
\* returns: "{}", or the category SystemAsterisk with one sub-event that has
\* a "path" or "(None)".  The filter "(" is not a regex.
handle_list_command(sounds, filter, show_unset) ==
    LET argv == <<"list", filter, show_unset>>
        displayed == /\ filter \in {"", "System"}
                     /\ sounds = "path" \/ show_unset # ""
    IN  IF sounds = "raises" THEN main(argv, sounds, <<>>, "raise")
        ELSE IF sounds = "{}"
        THEN main(argv, sounds,
                  <<"Could not retrieve any sound events. Check logs.">>, "return")
        ELSE IF filter = "("
        THEN main(argv, sounds, <<"Error: Invalid filter regex">>, "exit")
        ELSE IF displayed
        THEN main(argv, sounds,
                  <<"Current System Sounds:", "[SystemAsterisk]", "  .Current: path or (None)">>,
                  "return")
        ELSE main(argv, sounds,
                  <<"Current System Sounds:",
                    "(No matching sound events found based on filter/options)">>,
                  "return")

\* play (--event CATEGORY | --file PATH) [--sync]
handle_play_command(target, sync, success) ==
    LET argv == <<"play", target, sync>>
        playing == IF target = "--event" THEN "Playing event" ELSE "Playing file"
    IN  IF success = "raises" THEN main(argv, success, <<playing>>, "raise")
        ELSE IF success = "True"
        THEN main(argv, success, <<playing, "Playback initiated.">>, "return")
        ELSE main(argv, success,
                  <<playing, "Playback failed. Check logs or file/event existence.">>,
                  "exit")

\* set CATEGORY PATH
handle_set_command(file_path, success) ==
    LET argv == <<"set", "SystemAsterisk", file_path>>
    IN  IF success = "raises"
        THEN main(argv, success, <<"Setting sound for event">>, "raise")
        ELSE IF success = "True"
        THEN main(argv, success,
                  <<"Setting sound for event",
                    "Sound set successfully. Changes should take effect shortly.">>,
                  "return")
        ELSE main(argv, success,
                  <<"Setting sound for event",
                    "Failed to set sound. Check logs for errors (permissions?).">>,
                  "exit")

\* profile (list | save NAME | load NAME | delete NAME).  confirm is the
\* answer to the question delete asks.
handle_profile_command(profile_command, confirm, result) ==
    LET argv == <<"profile", profile_command, confirm>>
    IN  IF profile_command = "list"
        THEN IF result = "raises" THEN main(argv, result, <<>>, "raise")
             ELSE IF result = "[]"
             THEN main(argv, result, <<"(No profiles found)">>, "return")
             ELSE main(argv, result, <<"Available Profiles:", "- Work">>, "return")
        ELSE IF profile_command = "save"
        THEN IF result = "raises"
             THEN main(argv, result, <<"Saving current sound settings to profile">>, "raise")
             ELSE IF result = "True"
             THEN main(argv, result,
                       <<"Saving current sound settings to profile",
                         "Profile saved successfully.">>, "return")
             ELSE main(argv, result,
                       <<"Saving current sound settings to profile",
                         "Failed to save profile. Check logs.">>, "exit")
        ELSE IF profile_command = "load"
        THEN IF result = "raises"
             THEN main(argv, result, <<"Loading and applying profile">>, "raise")
             ELSE IF result = "True"
             THEN main(argv, result,
                       <<"Loading and applying profile",
                         "Profile applied successfully. Check logs for any individual sound failures.">>,
                       "return")
             ELSE main(argv, result,
                       <<"Loading and applying profile",
                         "Failed to apply profile completely. Check logs.">>, "exit")
        ELSE IF confirm \notin {"y", "Y"}
        THEN main(argv, "", <<"Deletion cancelled.">>, "return")
        ELSE IF result = "raises"
        THEN main(argv, result, <<"Deleting profile">>, "raise")
        ELSE IF result = "True"
        THEN main(argv, result,
                  <<"Deleting profile", "Profile deleted successfully.">>, "return")
        ELSE main(argv, result,
                  <<"Deleting profile", "Failed to delete profile. Check logs.">>, "exit")

\* The levels volume --set is given, in percent (LEVEL is 0.0 to 1.0).
VolumeLevels == <<"-10%", "0%", "50%", "100%", "110%">>

\* volume (--set LEVEL | --get | --mute | --unmute | --get-mute).  `success`
\* and the last test are lines 329 and 368-370.
handle_volume_command(option, level, result) ==
    LET argv == <<"volume", option, level>>
        raised == result \in {"ImportError", "Exception"}
        error == IF result = "ImportError" THEN "Error: Is pycaw installed?"
                 ELSE "An unexpected error occurred"
        Finish(stdout, success) ==
            IF ~success /\ option \notin {"--get", "--get-mute"}
            THEN main(argv, result,
                      Append(stdout, "Volume command failed. Check logs."), "exit")
            ELSE main(argv, result, stdout, "return")
    IN  IF option = "--set"
        THEN IF level \in {VolumeLevels[1], VolumeLevels[5]}
             THEN main(argv, "",
                       <<"Error: Volume level must be between 0.0 and 1.0.">>, "exit")
             ELSE IF raised
             THEN main(argv, result, <<"Setting master volume to", error>>, "exit")
             ELSE Finish(<<"Setting master volume to">>, result = "True")
        ELSE IF option = "--get"
        THEN IF raised THEN main(argv, result, <<error>>, "exit")
             ELSE IF result # "None"
             THEN Finish(<<"Current master volume">>, TRUE)
             ELSE Finish(<<"Failed to get volume level.">>, FALSE)
        ELSE IF option \in {"--mute", "--unmute"}
        THEN LET line == IF option = "--mute" THEN "Muting master volume..."
                         ELSE "Unmuting master volume..."
             IN  IF raised THEN main(argv, result, <<line, error>>, "exit")
                 ELSE Finish(<<line>>, result = "True")
        ELSE IF raised THEN main(argv, result, <<error>>, "exit")
             ELSE IF result # "None"
             THEN Finish(<<IF result = "True" THEN "Master mute status: Muted"
                           ELSE "Master mute status: Unmuted">>, TRUE)
             ELSE Finish(<<"Failed to get mute status.">>, FALSE)

\* device (list | set-default ID) [--type output|input]
handle_device_command(device_command, type, result) ==
    LET argv == <<"device", device_command, type>>
        raised == result \in {"ImportError", "Exception"}
        error == IF result = "ImportError" THEN "Error: Is pycaw installed?"
                 ELSE "An unexpected error occurred"
    IN  IF device_command = "list"
        THEN IF raised
             THEN main(argv, result, <<"Listing devices...", error>>, "exit")
             ELSE IF result = "[]"
             THEN main(argv, result,
                       <<"Listing devices...",
                         "(No devices found or error retrieving list)">>,
                       "return")
             ELSE main(argv, result,
                       <<"Listing devices...",
                         "Found 1 device(s):", "- Name: Speakers">>,
                       "return")
        ELSE LET attempt == <<"Attempting to set default device (EXPERIMENTAL)",
                              "NOTE: This operation is unreliable and may not work.">>
             IN  IF raised THEN main(argv, result, Append(attempt, error), "exit")
                 ELSE IF result = "True"
                 THEN main(argv, result,
                           Append(attempt, "Attempted to set default device. Verification needed manually or via other tools."),
                           "return")
                 ELSE main(argv, result,
                           Append(attempt, "Failed to attempt setting default device. Check logs."),
                           "exit")

\* monitor: builds the MCPHandler, starts it and sleeps until Ctrl+C.
\* outcome is "KeyboardInterrupt", or what MCPHandler(manager) raised.
handle_monitor_command(outcome) ==
    LET argv == <<"monitor">>
    IN  IF outcome = "ImportError"
        THEN main(argv, outcome, <<"Error: ImportError">>, "exit")
        ELSE IF outcome = "Exception"
        THEN main(argv, outcome, <<"An error occurred during monitoring">>, "exit")
        ELSE main(argv, outcome,
                  <<"Starting MCP monitoring based on config.json...",
                    "Monitoring active window. Press Ctrl+C to stop.",
                    "Ctrl+C received. Stopping monitoring...",
                    "Monitoring stopped.">>, "return")

NoStore ==
    /\ registry = <<>>
    /\ profile_dir = <<>>
    /\ op = NoOp
    /\ process = NotRun

-----------------------------------------------------------------------------
(* The monitor under every window sequence and every lifecycle call.  The   *)
(* only history kept is the latest lifecycle call.                          *)

history_vars == <<prev_observed, run_members, run_evaluated, signalled,
                  failed_context, watched>>
scenario_vars == <<script, apply_log, restarted>>
matcher_vars == <<window_info, match_result>>
store_vars == <<registry, profile_dir, op>>

NoHistory ==
    /\ last_call = <<"none", FALSE>>
    /\ prev_observed = None
    /\ run_members = {}
    /\ run_evaluated = FALSE
    /\ signalled = {}
    /\ failed_context = None
    /\ watched = {}
    /\ script = <<>>
    /\ apply_log = <<>>
    /\ restarted = FALSE
    /\ window_info = None
    /\ match_result = None
    /\ elapsed = {}

Init ==
    /\ \E file \in ConfigFiles : Construct(file)
    /\ NoHistory
    /\ NoStore

Next ==
    \/ /\ StartMonitoring
       /\ last_call' = <<"start", Running>>
       /\ UNCHANGED <<history_vars, scenario_vars, matcher_vars, store_vars, process, elapsed>>
    \/ /\ StopMonitoring
       /\ last_call' = <<"stop", Running>>
       /\ UNCHANGED <<history_vars, scenario_vars, matcher_vars, store_vars, process, elapsed>>
    \/ /\ JoinReturn
       /\ UNCHANGED <<last_call, history_vars, scenario_vars, matcher_vars, store_vars, process, elapsed>>
    \/ \E t \in Loops, observed \in Observations :
          /\ LoopCheck(t, observed)
          /\ UNCHANGED <<last_call, history_vars, scenario_vars, matcher_vars, store_vars, process, elapsed>>
    \/ \E t \in Loops :
          /\ Tick(t)
          /\ UNCHANGED <<last_call, history_vars, scenario_vars, matcher_vars, store_vars, process, elapsed>>
    \/ \E t \in Loops, success \in BOOLEAN :
          /\ ApplyReturn(t, success)
          /\ UNCHANGED <<last_call, history_vars, scenario_vars, matcher_vars, store_vars, process, elapsed>>

Spec == Init /\ [][Next]_vars

-----------------------------------------------------------------------------
(* The monitor on configurations whose fields hold a number where a string  *)
(* is expected.                                                             *)

NumberPatternRule == Rule("active_window_title", <<Number7>>, "WorkProfile")

FaultConfigs ==
    { Config({"default_profile"}, <<>>, Some(Number7)),
      Config({"contexts"}, <<NumberPatternRule, NotepadRule>>, None),
      Config({"contexts", "default_profile"}, <<NotepadRule>>, Some("Default")) }

FaultInit ==
    /\ \E cfg \in FaultConfigs : Construct(JsonFile(Document(cfg)))
    /\ NoHistory
    /\ NoStore

FaultSpec == FaultInit /\ [][Next]_vars

-----------------------------------------------------------------------------
(* The monitor with a clock: a loop that sleeps goes on when its blocking   *)
(* call returns.  time.sleep(self.monitor_interval) returns when the        *)
(* interval has run out; self._stop_event.wait(self.monitor_interval)       *)
(* returns when the interval has run out or the event is set.               *)

\* The interval of the sleep of loop t runs out.
IntervalElapses(t) ==
    /\ loops[t].pc \in {"sleeping", "waiting"}
    /\ t \notin elapsed
    /\ elapsed' = elapsed \cup {t}
    /\ UNCHANGED <<config_file, constructed, monitor_interval, mcp_config,
                   contexts, default_profile, current_profile,
                   last_active_window_title, _stop_event, _monitor_thread,
                   loops, caller>>

\* The blocking call loop t is in returns (a thread that has just started
\* is in none).
Wakes(t) ==
    \/ loops[t].pc = "start"
    \/ t \in elapsed
    \/ loops[t].pc = "waiting" /\ _stop_event

TimedNext ==
    \/ /\ StartMonitoring
       /\ last_call' = <<"start", Running>>
       /\ UNCHANGED <<history_vars, scenario_vars, matcher_vars, store_vars, process, elapsed>>
    \/ /\ StopMonitoring
       /\ last_call' = <<"stop", Running>>
       /\ UNCHANGED <<history_vars, scenario_vars, matcher_vars, store_vars, process, elapsed>>
    \/ /\ JoinReturn
       /\ UNCHANGED <<last_call, history_vars, scenario_vars, matcher_vars, store_vars, process, elapsed>>
    \/ \E t \in Loops :
          /\ IntervalElapses(t)
          /\ UNCHANGED <<last_call, history_vars, scenario_vars, matcher_vars, store_vars, process>>
    \/ \E t \in Loops, observed \in Observations :
          /\ Wakes(t)
          /\ LoopCheck(t, observed)
          /\ elapsed' = elapsed \ {t}
          /\ UNCHANGED <<last_call, history_vars, scenario_vars, matcher_vars, store_vars, process>>
    \/ \E t \in Loops :
          /\ Tick(t)
          /\ UNCHANGED <<last_call, history_vars, scenario_vars, matcher_vars, store_vars, process, elapsed>>
    \/ \E t \in Loops, success \in BOOLEAN :
          /\ ApplyReturn(t, success)
          /\ UNCHANGED <<last_call, history_vars, scenario_vars, matcher_vars, store_vars, process, elapsed>>

TimedSpec == Init /\ [][TimedNext]_vars

-----------------------------------------------------------------------------
(* The same monitor, observed: history variables record what the loops saw  *)
(* and did.  They are written here and read by no action of the monitor.    *)

\* The window query of loop t returned `observed` (no query when the loop ends).
QueryHistory(t, observed) ==
    IF _stop_event
    THEN /\ signalled' = signalled \ {t}
         /\ run_members' = run_members \ {t}
         /\ watched' = watched \ {t}
         /\ UNCHANGED <<prev_observed, run_evaluated, failed_context>>
    ELSE /\ prev_observed' = Some(observed)
         /\ IF observed # None /\ prev_observed = Some(observed)
            THEN /\ run_members' = run_members \cup {t}
                 /\ UNCHANGED run_evaluated
            ELSE /\ run_members' = IF observed # None THEN {t} ELSE {}
                 /\ run_evaluated' = FALSE
         /\ IF failed_context = Some(observed)
            THEN /\ watched' = watched \cup {t}
                 /\ UNCHANGED failed_context
            ELSE /\ watched' = {}
                 /\ failed_context' = None
         /\ UNCHANGED signalled

TracedNext ==
    \/ /\ StartMonitoring
       /\ UNCHANGED <<last_call, history_vars, scenario_vars, matcher_vars, store_vars, process, elapsed>>
    \/ /\ StopMonitoring
       /\ signalled' = IF Running THEN signalled \cup {_monitor_thread[1]}
                                  ELSE signalled
       /\ UNCHANGED <<last_call, prev_observed, run_members, run_evaluated,
                      failed_context, watched, scenario_vars, matcher_vars, store_vars, process, elapsed>>
    \/ /\ JoinReturn
       /\ UNCHANGED <<last_call, history_vars, scenario_vars, matcher_vars, store_vars, process, elapsed>>
    \/ \E t \in Loops, observed \in Observations :
          /\ LoopCheck(t, observed)
          /\ QueryHistory(t, observed)
          /\ UNCHANGED <<last_call, scenario_vars, matcher_vars, store_vars, process, elapsed>>
    \/ \E t \in Loops :
          /\ Tick(t)
          /\ run_members' = run_members \ {t}
          /\ run_evaluated' =
                 (run_evaluated \/ (t \in run_members /\ loops'[t].pc # "sleeping"))
          /\ UNCHANGED <<last_call, prev_observed, signalled, failed_context,
                         watched, scenario_vars, matcher_vars, store_vars, process, elapsed>>
    \/ \E t \in Loops, success \in BOOLEAN :
          /\ ApplyReturn(t, success)
          /\ IF success
             THEN UNCHANGED <<failed_context, watched>>
             ELSE /\ failed_context' = Some(loops[t].active_info)
                  /\ watched' = {}
          /\ UNCHANGED <<last_call, prev_observed, run_members, run_evaluated,
                         signalled, scenario_vars, matcher_vars, store_vars, process, elapsed>>

TracedSpec == Init /\ [][TracedNext]_vars

-----------------------------------------------------------------------------
(* The observed monitor under fair scheduling: a loop thread that is alive  *)
(* takes its next step (the window query returns, time.sleep and Event.wait *)
(* end after the interval, load_sound_profile returns), and Thread.join     *)
(* returns, at the latest when its timeout expires.                         *)

\* A step of the thread of loop t.
LoopStep(t) == IsAlive(t) /\ TracedNext /\ loops'[t] # loops[t]

\* The monitor of the configuration with the rule Notepad -> WorkProfile
\* and the default profile "Default".
FairInit ==
    /\ Construct(JsonFile(Document(
           Config({"contexts", "default_profile"}, <<NotepadRule>>, Some("Default")))))
    /\ NoHistory
    /\ NoStore

FairSpec ==
    /\ FairInit
    /\ [][TracedNext]_vars
    /\ \A t \in Loops : WF_vars(LoopStep(t))
    /\ WF_vars(caller = "joining" /\ TracedNext /\ caller' = "idle")

-----------------------------------------------------------------------------
(* The end-to-end scenario: one rule, Notepad -> WorkProfile, with and      *)
(* without a default profile; the foreground window goes through            *)
(* WindowSequence, one title per window query.                              *)

WindowSequence == <<Chrome, Notepad, Notepad, Explorer>>

ScenarioConfigs ==
    { Config({"contexts", "default_profile"}, <<NotepadRule>>, Some("Default")),
      Config({"contexts"}, <<NotepadRule>>, None) }

ScenarioInit ==
    /\ \E cfg \in ScenarioConfigs : Construct(JsonFile(Document(cfg)))
    /\ last_call = <<"none", FALSE>>
    /\ prev_observed = None
    /\ run_members = {}
    /\ run_evaluated = FALSE
    /\ signalled = {}
    /\ failed_context = None
    /\ watched = {}
    /\ script = WindowSequence
    /\ apply_log = <<>>
    /\ restarted = FALSE
    /\ window_info = None
    /\ match_result = None
    /\ elapsed = {}
    /\ NoStore

ScenarioNext ==
    \/ /\ StartMonitoring
       /\ last_call' = <<"start", Running>>
       /\ restarted' = (restarted \/ last_call[1] # "none")
       /\ UNCHANGED <<history_vars, script, apply_log, matcher_vars, store_vars, process, elapsed>>
    \/ /\ StopMonitoring
       /\ last_call' = <<"stop", Running>>
       /\ restarted' = TRUE
       /\ UNCHANGED <<history_vars, script, apply_log, matcher_vars, store_vars, process, elapsed>>
    \/ /\ JoinReturn
       /\ UNCHANGED <<last_call, history_vars, scenario_vars, matcher_vars, store_vars, process, elapsed>>
    \/ \E t \in Loops :
          /\ _stop_event \/ script # <<>>
          /\ LoopCheck(t, IF script # <<>> THEN Some(Head(script)) ELSE None)
          /\ script' = IF _stop_event THEN script ELSE Tail(script)
          /\ UNCHANGED <<last_call, history_vars, apply_log, restarted,
                         matcher_vars, store_vars, process, elapsed>>
    \/ \E t \in Loops :
          /\ Tick(t)
          /\ UNCHANGED <<last_call, history_vars, scenario_vars, matcher_vars, store_vars, process, elapsed>>
    \/ \E t \in Loops, success \in BOOLEAN :
          /\ ApplyReturn(t, success)
          /\ apply_log' = Append(apply_log, <<loops[t].target_profile[1], success>>)
          /\ UNCHANGED <<last_call, history_vars, script, restarted,
                         matcher_vars, store_vars, process, elapsed>>

ScenarioSpec == ScenarioInit /\ [][ScenarioNext]_vars

-----------------------------------------------------------------------------
(* The rule matcher alone, on every rule list of at most MaxRules rules     *)
(* drawn from MatchRuleSet and on every input of MatchInputs.               *)

MatchRuleSet ==
    { Rule("active_window_title", <<"A",".","*">>, "p1"),
      Rule("active_window_title", <<".","*">>, "p2"),
      Rule("active_window_title", <<"T","H","E">>, "p3"),
      Rule("active_window_title", <<"*">>, "p4"),
      Rule("process_name", <<".","*">>, "p5"),
      [type |-> "active_window_title", pattern |-> <<".","*">>],
      [type |-> "active_window_title", profile |-> "p6"],
      [pattern |-> <<".","*">>, profile |-> "p7"] }

RuleLists == UNION {[1..n -> MatchRuleSet] : n \in 0..MaxRules}

MatchInputs == {None, Some(Alpha), Some(Other), Some(<<>>)}

MatchInit ==
    /\ \E rules \in RuleLists :
          Construct(JsonFile(Document(Config({"contexts"}, rules, None))))
    /\ last_call = <<"none", FALSE>>
    /\ prev_observed = None
    /\ run_members = {}
    /\ run_evaluated = FALSE
    /\ signalled = {}
    /\ failed_context = None
    /\ watched = {}
    /\ script = <<>>
    /\ apply_log = <<>>
    /\ restarted = FALSE
    /\ window_info \in MatchInputs
    /\ match_result = None
    /\ elapsed = {}
    /\ NoStore

\* One call of _match_context(window_info).
MatchCall ==
    /\ match_result = None
    /\ match_result' = Some(_match_context(window_info))
    /\ UNCHANGED <<config_file, constructed, monitor_interval,
                   mcp_config, contexts, default_profile, current_profile,
                   last_active_window_title, _stop_event, _monitor_thread,
                   loops, caller, last_call, history_vars, scenario_vars,
                   window_info, store_vars, process, elapsed>>

MatchSpec == MatchInit /\ [][MatchCall]_vars

-----------------------------------------------------------------------------
(* The profile store alone, under every sequence of operations *)

StoreInit ==
    /\ Construct(MissingFile)
    /\ NoHistory
    /\ registry \in SampleRegistries
    /\ profile_dir \in SampleDirectories
    /\ op = NoOp
    /\ process = NotRun

monitor_vars ==
    <<config_file, constructed, monitor_interval, mcp_config, contexts,
      default_profile, current_profile, last_active_window_title,
      _stop_event, _monitor_thread, loops, caller, last_call, history_vars,
      scenario_vars, matcher_vars>>

StoreNext ==
    \/ \E i \in 1..Len(ProfileNames), io \in {"ok", "open_fails", "write_fails"} :
          /\ SaveProfile(ProfileNames[i], io)
          /\ UNCHANGED <<monitor_vars, process, elapsed>>
    \/ \E i \in 1..Len(ProfileNames), readable \in BOOLEAN :
          /\ LoadProfile(ProfileNames[i], readable)
          /\ UNCHANGED <<monitor_vars, process, elapsed>>
    \/ \E i \in 1..Len(ProfileNames), readable \in BOOLEAN, denied \in DeniedSets :
          /\ ApplyProfile(ProfileNames[i], readable, denied)
          /\ UNCHANGED <<monitor_vars, process, elapsed>>
    \/ /\ ListProfiles
       /\ UNCHANGED <<monitor_vars, process, elapsed>>
    \/ \E i \in 1..Len(ProfileNames), removable \in BOOLEAN :
          /\ DeleteProfile(ProfileNames[i], removable)
          /\ UNCHANGED <<monitor_vars, process, elapsed>>

StoreSpec == StoreInit /\ [][StoreNext]_vars

-----------------------------------------------------------------------------
(* The monitor over the profile store: the loop's apply is apply_profile on *)
(* the Sound Store, with every set of registry keys that cannot be written. *)
(* The rule is Notepad -> Work, the default profile is Game, and the two    *)
(* stored profiles bind the same keys to different sounds.                  *)

\* The profile name the loop passes to load_sound_profile, as a string of
\* characters.
SpelledName(profile) == IF profile = "Work" THEN Work ELSE Game

\* SoundManager.load_sound_profile(target_profile) called by loop t: it
\* returns what apply_profile returns.
LoadSoundProfile(t, denied) ==
    /\ loops[t].pc = "applying"
    /\ ApplyProfile(SpelledName(loops[t].target_profile[1]), TRUE, denied)
    /\ ApplyReturn(t, Held(op'.result))

WholeNext ==
    \/ /\ StartMonitoring
       /\ UNCHANGED <<last_call, history_vars, scenario_vars, matcher_vars, store_vars, process, elapsed>>
    \/ /\ StopMonitoring
       /\ UNCHANGED <<last_call, history_vars, scenario_vars, matcher_vars, store_vars, process, elapsed>>
    \/ /\ JoinReturn
       /\ UNCHANGED <<last_call, history_vars, scenario_vars, matcher_vars, store_vars, process, elapsed>>
    \/ \E t \in Loops, observed \in Observations :
          /\ LoopCheck(t, observed)
          /\ UNCHANGED <<last_call, history_vars, scenario_vars, matcher_vars, store_vars, process, elapsed>>
    \/ \E t \in Loops :
          /\ Tick(t)
          /\ UNCHANGED <<last_call, history_vars, scenario_vars, matcher_vars, store_vars, process, elapsed>>
    \/ \E t \in Loops, denied \in DeniedSets :
          /\ LoadSoundProfile(t, denied)
          /\ UNCHANGED <<last_call, history_vars, scenario_vars, matcher_vars, process, elapsed>>

WholeInit ==
    /\ Construct(JsonFile(Document(
           Config({"contexts", "default_profile"},
                  <<Rule("active_window_title", Notepad, "Work")>>, Some("Game")))))
    /\ NoHistory
    /\ registry = <<>>
    /\ profile_dir =
           [n \in {Work, Game} |->
               IF n = Work
               THEN ProfileText(Work, ThreeBindings)
               ELSE ProfileText(Game, JObject(<<
                        <<"SystemAsterisk", JObject(<< <<".Current", JString(Chord)>> >>)>>,
                        <<"MailBeep", JObject(<< <<".Current", JString(Ding)>> >>)>> >>))]
    /\ op = NoOp
    /\ process = NotRun

WholeSpec == WholeInit /\ [][WholeNext]_vars

-----------------------------------------------------------------------------
(* The command line alone, under every command and every result of the     *)
(* manager's operation                                                      *)

CliInit ==
    /\ Construct(MissingFile)
    /\ NoHistory
    /\ NoStore

CliNext ==
    \/ \E sounds \in {"{}", "path", "(None)", "raises"},
       filter \in {"", "System", "Mail", "("},
       show_unset \in {"", "--show-unset"} :
          /\ handle_list_command(sounds, filter, show_unset)
          /\ UNCHANGED <<monitor_vars, store_vars, elapsed>>
    \/ \E target \in {"--event", "--file"}, sync \in {"", "--sync"},
       success \in {"True", "False", "raises"} :
          /\ handle_play_command(target, sync, success)
          /\ UNCHANGED <<monitor_vars, store_vars, elapsed>>
    \/ \E file_path \in {"", "C:/media/ding.wav"},
       success \in {"True", "False", "raises"} :
          /\ handle_set_command(file_path, success)
          /\ UNCHANGED <<monitor_vars, store_vars, elapsed>>
    \/ \E profile_command \in {"list"}, result \in {"[]", "profiles", "raises"} :
          /\ handle_profile_command(profile_command, "", result)
          /\ UNCHANGED <<monitor_vars, store_vars, elapsed>>
    \/ \E profile_command \in {"save", "load"},
       result \in {"True", "False", "raises"} :
          /\ handle_profile_command(profile_command, "", result)
          /\ UNCHANGED <<monitor_vars, store_vars, elapsed>>
    \/ \E confirm \in {"y", "Y", "n", ""}, result \in {"True", "False", "raises"} :
          /\ handle_profile_command("delete", confirm, result)
          /\ UNCHANGED <<monitor_vars, store_vars, elapsed>>
    \/ \E i \in 1..Len(VolumeLevels),
       result \in {"True", "False", "ImportError", "Exception"} :
          /\ handle_volume_command("--set", VolumeLevels[i], result)
          /\ UNCHANGED <<monitor_vars, store_vars, elapsed>>
    \/ \E result \in {"50%", "None", "ImportError", "Exception"} :
          /\ handle_volume_command("--get", "", result)
          /\ UNCHANGED <<monitor_vars, store_vars, elapsed>>
    \/ \E option \in {"--mute", "--unmute"},
       result \in {"True", "False", "ImportError", "Exception"} :
          /\ handle_volume_command(option, "", result)
          /\ UNCHANGED <<monitor_vars, store_vars, elapsed>>
    \/ \E result \in {"True", "False", "None", "ImportError", "Exception"} :
          /\ handle_volume_command("--get-mute", "", result)
          /\ UNCHANGED <<monitor_vars, store_vars, elapsed>>
    \/ \E device_command \in {"list"}, type \in {"output", "input"},
       result \in {"devices", "[]", "ImportError", "Exception"} :
          /\ handle_device_command(device_command, type, result)
          /\ UNCHANGED <<monitor_vars, store_vars, elapsed>>
    \/ \E type \in {"output", "input"},
       result \in {"True", "False", "ImportError", "Exception"} :
          /\ handle_device_command("set-default", type, result)
          /\ UNCHANGED <<monitor_vars, store_vars, elapsed>>
    \/ \E outcome \in {"KeyboardInterrupt", "ImportError", "Exception"} :
          /\ handle_monitor_command(outcome)
          /\ UNCHANGED <<monitor_vars, store_vars, elapsed>>

CliSpec == CliInit /\ [][CliNext]_vars

-----------------------------------------------------------------------------
(* _is_valid_profile_name alone, on every name of at most MaxNameLen        *)
(* characters of NameAlphabet.                                              *)

NameAlphabet == {"a", "Z", "7", " ", "_", "-", ".", "/", "\n"}

Names == UNION {[1..n -> NameAlphabet] : n \in 0..MaxNameLen}

\* One call of _is_valid_profile_name(name).
ValidateName(name) ==
    /\ op' = Call("valid", name, PyBool(IsValidProfileName(name)))
    /\ UNCHANGED <<registry, profile_dir>>

NameNext ==
    \E name \in Names :
        /\ op = NoOp
        /\ ValidateName(name)
        /\ UNCHANGED <<monitor_vars, process, elapsed>>

NameSpec == CliInit /\ [][NameNext]_vars

-----------------------------------------------------------------------------
(* Claims *)

\* Does rule r, as the claims describe a well-formed title rule, match title?
RuleMatches(r, title) ==
    /\ {"type", "pattern", "profile"} \subseteq DOMAIN r
    /\ r.type = "active_window_title"
    /\ r.pattern # <<>>
    /\ r.profile # ""
    /\ ~RegexError(r.pattern)
    /\ Search(r.pattern, title)

\* The profile of the lowest-index matching rule, None without one.
FirstMatch(rules, info) ==
    IF info = None THEN None
    ELSE LET hits == {i \in 1..Len(rules) : RuleMatches(rules[i], info[1])}
         IN  IF hits = {} THEN None
             ELSE Some(rules[CHOOSE i \in hits : \A j \in hits : i <= j].profile)

LiveLoops == {t \in Loops : IsAlive(t)}

\* C1 (dedup): within a run of consecutive window queries that return the
\* same title, the rules are evaluated (and a profile applied) by at most one
\* tick: once a tick of the run has evaluated, every other tick of the run
\* takes the sleep of the unchanged-title branch.
C1_Dedup ==
    [][\A t \in Loops :
          (t \in run_members /\ run_evaluated /\ loops[t].pc = "queried"
             /\ loops'[t].pc # "queried")
              => loops'[t].pc = "sleeping"]_vars

\* C2 (first match wins): _match_context returns the profile of the
\* lowest-index well-formed active_window_title rule whose pattern is found
\* in the title by a case-insensitive search, and None without such a rule;
\* rules [("A.*","p1"),(".*","p2")] give p1 for "Alpha" and p2 for "Other",
\* and the pattern "THE" is found inside "Other".
C2_FirstMatchWins ==
    match_result # None =>
        /\ match_result = Some(FirstMatch(contexts, window_info))
        /\ (contexts = <<Rule("active_window_title", <<"A",".","*">>, "p1"),
                         Rule("active_window_title", <<".","*">>, "p2")>>
            => /\ window_info = Some(Alpha) => match_result = Some(Some("p1"))
               /\ window_info = Some(Other) => match_result = Some(Some("p2"))
               /\ window_info = None => match_result = Some(None))
        /\ (contexts = <<Rule("active_window_title", <<"T","H","E">>, "p3")>>
            => /\ window_info = Some(Other) => match_result = Some(Some("p3"))
               /\ window_info = Some(Alpha) => match_result = Some(None))

C2_Witness ==
    /\ contexts = <<Rule("active_window_title", <<"A",".","*">>, "p1"),
                    Rule("active_window_title", <<".","*">>, "p2")>>
    /\ window_info = Some(Other)
    /\ match_result = Some(Some("p2"))

\* C3 (target selection): after every tick that is not deduplicated the
\* target is the matched rule's profile, else the default profile, else
\* none; a tick without window info has the default profile (or none) as
\* its target.
C3_TargetSelection ==
    [][\A t \in Loops :
          (loops[t].pc = "queried" /\ loops'[t].pc \in {"applying", "waiting"})
              => /\ loops'[t].target_profile =
                       IF FirstMatch(contexts, loops[t].active_info) # None
                       THEN FirstMatch(contexts, loops[t].active_info)
                       ELSE default_profile
                 /\ loops[t].active_info = None =>
                       loops'[t].target_profile = default_profile]_vars

C3_Witness ==
    \E t \in Loops :
        /\ loops[t].pc = "applying"
        /\ loops[t].active_info = None
        /\ default_profile = Some("Default")
        /\ loops[t].target_profile = Some("Default")

\* C4 (idempotence on an unchanged target): a tick whose target equals
\* current_profile invokes no apply, whatever the window title is.
C4_NoReapply ==
    [][\A t \in Loops :
          (loops[t].pc = "queried" /\ loops'[t].pc = "applying")
              => loops'[t].target_profile # current_profile]_vars

C4_Witness ==
    \E t \in Loops :
        /\ loops[t].pc = "waiting"
        /\ current_profile # None
        /\ loops[t].target_profile = current_profile
        /\ loops[t].success = None
        /\ LiveLoops = {t}

\* C5 (end-to-end scenario): a freshly started monitor that has observed
\* Chrome, Notepad, Notepad, Explorer, one title per tick, with every apply
\* succeeding, has applied exactly Default, WorkProfile, Default when the
\* default profile is "Default" and exactly WorkProfile when there is none.
C5_Scenario ==
    ( /\ script = <<>>
      /\ ~restarted
      /\ \A t \in Loops : loops[t].pc \notin {"queried", "applying"}
      /\ \A i \in 1..Len(apply_log) : apply_log[i][2] )
    => [i \in 1..Len(apply_log) |-> apply_log[i][1]] =
          IF default_profile = Some("Default")
          THEN <<"Default", "WorkProfile", "Default">>
          ELSE <<"WorkProfile">>

C5_Witness ==
    /\ script = <<>>
    /\ ~restarted
    /\ \A t \in Loops : loops[t].pc \notin {"queried", "applying"}
    /\ apply_log = <<<<"Default", TRUE>>, <<"WorkProfile", TRUE>>, <<"Default", TRUE>>>>

\* C6 (apply outcome): when apply returns success current_profile becomes
\* the target; when it returns failure current_profile is left as it was.
C6_ApplyOutcome ==
    [][\A t \in Loops :
          (loops[t].pc = "applying" /\ loops'[t].pc = "waiting")
              => IF loops'[t].success = Some(TRUE)
                 THEN current_profile' = loops[t].target_profile
                 ELSE current_profile' = current_profile]_vars

C6_Witness ==
    \E t \in Loops :
        /\ loops[t].pc = "waiting"
        /\ loops[t].success = Some(FALSE)
        /\ current_profile = Some("Default")
        /\ loops[t].target_profile = Some("WorkProfile")

\* C7 (no automatic retry): after a failed apply, a tick whose window query
\* returned the same context as every query since the failure (the same
\* title, or no window info) invokes no apply.
C7_NoAutomaticRetry ==
    [][\A t \in Loops :
          (loops[t].pc = "queried" /\ loops'[t].pc = "applying")
              => t \notin watched]_vars

\* C8 (single loop): at most one tick loop is alive, whatever start and stop
\* calls were made.
C8_SingleLoop == Cardinality(LiveLoops) <= 1

\* C9 (cooperative stop): a loop that was running when stop_monitoring set
\* the stop event begins no new tick.
C9_CooperativeStop ==
    [][\A t \in signalled :
          ~(loops[t].pc \in {"start", "sleeping", "waiting"}
            /\ loops'[t].pc = "queried")]_vars

\* C10 (redundant lifecycle calls): start_monitoring while the loop is
\* running, and stop_monitoring while it is not, change nothing of the
\* monitor: no loop is launched, the stop event and the state are untouched.
C10_RedundantCallsNoOp ==
    [][(last_call' # last_call /\ last_call' \in {<<"start", TRUE>>, <<"stop", FALSE>>})
          => UNCHANGED <<mcp_config, contexts, default_profile, current_profile,
                         last_active_window_title, _stop_event, _monitor_thread,
                         loops, caller>>]_vars

C10_Witness ==
    /\ last_call = <<"start", TRUE>>
    /\ Running
    /\ Cardinality(LiveLoops) = 1

\* C11 as stated (no rules, no loop): on a monitor whose rule list is empty no
\* loop is ever launched and the monitor stays Stopped, whatever other keys
\* the mcp_profiles section holds.
C11_NoRulesNoLoop ==
    contexts = <<>> =>
        /\ _monitor_thread = None
        /\ \A t \in Loops : loops[t].pc = "none"

\* C11 (amended): on a monitor whose mcp_profiles section is missing or holds
\* no key at all, start_monitoring launches no loop and returns, and the
\* monitor stays Stopped: no handle, no thread, the stop event untouched.
C11_EmptySectionNoLoop ==
    mcp_config = {} =>
        /\ _monitor_thread = None
        /\ \A t \in Loops : loops[t].pc = "none"
        /\ ~_stop_event
        /\ caller = "idle"
        /\ current_profile = None

C11_Witness ==
    /\ mcp_config = {}
    /\ contexts = <<>>
    /\ last_call = <<"start", FALSE>>
    /\ ~Running

\* C12 (missing or malformed configuration file): construction completes,
\* the configuration is empty (no rules, no default profile, the default
\* interval of 10 seconds) and start_monitoring never launches a loop.
C12_BadFileEmptyConfig ==
    config_file.kind \in {"missing", "malformed"} =>
        /\ constructed
        /\ mcp_config = {}
        /\ contexts = <<>>
        /\ default_profile = None
        /\ monitor_interval = 10
        /\ _monitor_thread = None
        /\ \A t \in Loops : loops[t].pc = "none"

C12_Witness ==
    /\ config_file = MalformedFile
    /\ constructed
    /\ last_call = <<"start", FALSE>>
    /\ \A t \in Loops : loops[t].pc = "none"

\* C13 (the loop survives every failure): a loop thread ends only in a step
\* taken while the stop event is set; no step of a tick ends it otherwise.
C13_LoopSurvives ==
    [][\A t \in Loops :
          (IsAlive(t) /\ loops'[t].pc \in {"none", "dead"}) => _stop_event]_vars

\* The elements of a sequence, and the value of the member `key` of a JSON
\* object (of its last occurrence).
Range(seq) == {seq[i] : i \in 1..Len(seq)}
MemberKeys(text) == {m[1] : m \in Range(Held(text))}
Member(text, key) ==
    Held(text)[CHOOSE i \in 1..Len(Held(text)) :
                  /\ Held(text)[i][1] = key
                  /\ \A k \in (i + 1)..Len(Held(text)) : Held(text)[k][1] # key][2]

\* A profile name as the data model defines it: non-empty, made of letters,
\* digits, spaces, underscores and hyphens only.
SafeName(name) ==
    /\ name # <<>>
    /\ \A i \in 1..Len(name) : name[i] \in NameChars

\* A profile document as the data model defines it: an object with a name
\* and a sounds mapping.
WellFormedProfile(text) ==
    /\ TypeOf(text) = "object"
    /\ {"name", "sounds"} \subseteq MemberKeys(text)
    /\ TypeOf(Member(text, "sounds")) = "object"

\* The profile `name` loads from the directory: its file exists, can be
\* read and holds a well-formed profile document.
ProfileLoads(dir, name, readable) ==
    /\ SafeName(name)
    /\ name \in DOMAIN dir
    /\ readable
    /\ WellFormedProfile(dir[name])

\* The bindings <<category, sub-event, path>> of a profile document: the
\* entries of the categories that are mappings.
BindingsOf(text) ==
    UNION { {<<c[1], e[1], e[2]>> : e \in Range(Held(c[2]))} :
              c \in {m \in Range(Held(Member(text, "sounds"))) :
                        TypeOf(m[2]) = "object"} }

\* Writing the binding b to the Sound Store succeeds: its path is null or a
\* string that is empty or names an existing file, and the key can be
\* written.
WriteSucceeds(b, denied) ==
    /\ TypeOf(b[3]) \in {"null", "string"}
    /\ TypeOf(b[3]) = "string" =>
           (Held(b[3]) = <<>> \/ Held(b[3]) \in ExistingFiles)
    /\ <<b[1], b[2]>> \notin denied

\* C14 (result of apply): apply_profile returns true exactly when the
\* profile loaded and every one of its bindings (none, possibly) was written
\* to the Sound Store; a binding whose path is neither a string nor null is
\* a failed binding.
C14_ApplyResult ==
    op.kind = "apply" =>
        ( op.result = PyBool(TRUE)
            <=> /\ ProfileLoads(profile_dir, op.name, op.readable)
                /\ \A b \in BindingsOf(profile_dir[op.name]) :
                       WriteSucceeds(b, op.denied) )

C14_Witness ==
    /\ op.kind = "apply"
    /\ op.name = Game
    /\ op.result = PyBool(FALSE)
    /\ Game \in DOMAIN profile_dir
    /\ profile_dir[Game] = ProfileText(Game, NumberPath)
    /\ op.denied = {}
    /\ op.attempted = <<<<"SystemAsterisk", ".Default">>>>

\* C15 (best effort, no rollback): when the profile loaded, apply_profile
\* calls the Sound Store for every binding whose path is a string or null,
\* whatever happened to the bindings before it; every binding whose write
\* succeeded holds the profile's value afterwards; and one failed binding
\* makes the result failure.
C15_BestEffortNoRollback ==
    (op.kind = "apply" /\ ProfileLoads(profile_dir, op.name, op.readable)) =>
        LET bindings == BindingsOf(profile_dir[op.name])
        IN  /\ \A b \in bindings :
                   TypeOf(b[3]) \in {"null", "string"}
                       => <<b[1], b[2]>> \in Range(op.attempted)
            /\ \A b \in bindings :
                   WriteSucceeds(b, op.denied)
                       => /\ b[1] \in DOMAIN registry
                          /\ b[2] \in DOMAIN registry[b[1]]
                          /\ registry[b[1]][b[2]] =
                                 IF TypeOf(b[3]) = "null" THEN <<>> ELSE Held(b[3])
            /\ (\E b \in bindings : ~WriteSucceeds(b, op.denied))
                   => op.result = PyBool(FALSE)

\* Binding 2 of 3 failed; bindings 1 and 3 are written.
C15_Witness ==
    /\ op.kind = "apply"
    /\ op.name = Game
    /\ Game \in DOMAIN profile_dir
    /\ profile_dir[Game] = ProfileText(Game, ThreeBindings)
    /\ op.denied = {<<"SystemExit", ".Current">>}
    /\ op.result = PyBool(FALSE)
    /\ op.attempted = << <<"SystemAsterisk", ".Current">>,
                         <<"SystemExit", ".Current">>,
                         <<"MailBeep", ".Current">> >>
    /\ DOMAIN registry = {"SystemAsterisk", "MailBeep"}
    /\ registry["SystemAsterisk"][".Current"] = Ding
    /\ registry["MailBeep"][".Current"] = Chord

\* C16 (invalid names touch nothing): save_profile and delete_profile of a
\* name that is not a safe name return failure, do not read the Sound Store
\* and leave the profile directory as it was.
C16_InvalidNameNoTouch ==
    [][(op'.kind \in {"save", "delete"} /\ ~SafeName(op'.name))
          => /\ op'.result = PyBool(FALSE)
             /\ ~op'.read_store
             /\ profile_dir' = profile_dir]_vars

\* Does the Python value `sounds` equal the Sound Store's contents: the same
\* categories, in each the same sub-events, and for each the path the store
\* returns (None when the sound is not set)?
SameAsStore(sounds, reg) ==
    /\ TypeOf(sounds) = "dict"
    /\ {it[1] : it \in Range(Held(sounds))} = DOMAIN reg
    /\ Len(Held(sounds)) = Cardinality(DOMAIN reg)
    /\ \A it \in Range(Held(sounds)) :
          /\ TypeOf(it[2]) = "dict"
          /\ {e[1] : e \in Range(Held(it[2]))} = DOMAIN reg[it[1]]
          /\ Len(Held(it[2])) = Cardinality(DOMAIN reg[it[1]])
          /\ \A e \in Range(Held(it[2])) :
                e[2] = IF reg[it[1]][e[1]] = <<>>
                       THEN PyNone
                       ELSE PyStr(ExpandVars(reg[it[1]][e[1]]))

\* C17 (round trip): a load_profile(name) that follows a successful
\* save_profile(name), and that can read the file, returns a profile whose
\* name is name and whose sounds equal the Sound Store's contents.
C17_SaveLoadRoundTrip ==
    [][(/\ op.kind = "save" /\ op.result = PyBool(TRUE)
        /\ op'.kind = "load" /\ op'.name = op.name /\ op'.readable)
          => /\ TypeOf(op'.result) = "dict"
             /\ {it[1] : it \in Range(Held(op'.result))} = {"name", "sounds"}
             /\ DictGet(op'.result, "name", PyNone) = PyStr(op.name)
             /\ SameAsStore(DictGet(op'.result, "sounds", PyNone), registry)]_vars

\* A snapshot with a category without sub-events and an unset binding.
C17_Witness ==
    /\ op.kind = "load"
    /\ op.name = Work
    /\ TypeOf(op.result) = "dict"
    /\ DictGet(op.result, "name", PyNone) = PyStr(Work)
    /\ DOMAIN registry = {"SystemAsterisk", "SystemExit", "MailBeep"}
    /\ registry["SystemExit"] = <<>>
    /\ registry["SystemAsterisk"][".Default"] = <<>>
    /\ SameAsStore(DictGet(op.result, "sounds", PyNone), registry)

\* C18 (load validates the document): load_profile returns None for a name
\* that is not safe, for a missing file, and for a file that does not hold a
\* well-formed profile document: text that is not JSON, a value that is not
\* an object, an object without a name or without sounds, or with sounds
\* that are not a mapping.
C18_LoadRejectsInvalid ==
    (op.kind = "load" /\ ~ProfileLoads(profile_dir, op.name, op.readable))
        => op.result = PyNone

\* The manager's operation of the latest command reported failure: it
\* returned False or None (for volume --get-mute, where False is "unmuted",
\* None), or, for list, no sound event at all.
OperationFailed ==
    /\ process.argv # <<>>
    /\ IF process.argv[1] = "list" THEN process.result = "{}"
       ELSE IF process.argv[1] = "volume" /\ process.argv[2] = "--get-mute"
       THEN process.result = "None"
       ELSE process.result \in {"False", "None"}

\* The lines that tell the user the command failed.
FailureLines ==
    { "Could not retrieve any sound events. Check logs.",
      "Playback failed. Check logs or file/event existence.",
      "Failed to set sound. Check logs for errors (permissions?).",
      "Failed to save profile. Check logs.",
      "Failed to apply profile completely. Check logs.",
      "Failed to delete profile. Check logs.",
      "Failed to get volume level.",
      "Failed to get mute status.",
      "Volume command failed. Check logs.",
      "Failed to attempt setting default device. Check logs." }

\* C19 (failed commands exit non-zero): a command whose operation reported
\* failure prints a failure line and exits with a non-zero code, whatever the
\* subcommand: volume --get, volume --get-mute and list included.
C19_FailureExitsNonZero ==
    OperationFailed =>
        /\ \E i \in 1..Len(process.stdout) : process.stdout[i] \in FailureLines
        /\ process.exit_code # 0

\* A malformed rule: it lacks one of type, pattern and profile, or its type
\* is not supported, or its pattern is not a regular expression.
Malformed(r) ==
    \/ ~({"type", "pattern", "profile"} \subseteq DOMAIN r)
    \/ r.type # "active_window_title"
    \/ RegexError(r.pattern)

\* C20 (malformed rules are skipped): a well-formed rule that matches the
\* title and has only malformed rules before it is the rule _match_context
\* returns, however many they are and whatever makes them malformed.
C20_MalformedRulesSkipped ==
    (match_result # None /\ window_info # None) =>
        \A i \in 1..Len(contexts) :
            (/\ \A j \in 1..(i - 1) : Malformed(contexts[j])
             /\ RuleMatches(contexts[i], window_info[1]))
                => match_result = Some(Some(contexts[i].profile))

\* A rule without profile, a rule with an invalid pattern and a rule of an
\* unsupported type come before the rule that is returned.
C20_Witness ==
    /\ contexts = << [type |-> "active_window_title", pattern |-> <<".","*">>],
                     Rule("active_window_title", <<"*">>, "p4"),
                     Rule("process_name", <<".","*">>, "p5"),
                     Rule("active_window_title", <<"T","H","E">>, "p3") >>
    /\ window_info = Some(Other)
    /\ match_result = Some(Some("p3"))

\* C21 (no target, no action): a tick that is not deduplicated and whose
\* target is none (no rule matches and there is no default profile) invokes
\* no apply and leaves current_profile as it was; and no step of a loop
\* resets current_profile to unset.
C21_NoTargetNoAction ==
    [][/\ \A t \in Loops :
             (/\ loops[t].pc = "queried"
              /\ loops'[t].pc # "queried"
              /\ ~TitleUnchanged(loops[t].active_info, last_active_window_title)
              /\ FirstMatch(contexts, loops[t].active_info) = None
              /\ default_profile = None)
                 => /\ loops'[t].pc = "waiting"
                    /\ loops'[t].success = None
                    /\ current_profile' = current_profile
       /\ current_profile # None => current_profile' # None]_vars

\* A profile is current and a later tick had no target.
C21_Witness ==
    \E t \in Loops :
        /\ loops[t].pc = "waiting"
        /\ loops[t].target_profile = None
        /\ loops[t].success = None
        /\ default_profile = None
        /\ contexts # <<>>
        /\ last_active_window_title = None
        /\ current_profile = Some("WorkProfile")

\* C22 (interruptible sleep): a loop in its sleep between two ticks, after a
\* full tick or after a deduplicated one, goes on as soon as the stop event
\* is set, without waiting for the interval to run out.
C22_InterruptibleSleep ==
    \A t \in Loops :
        (loops[t].pc \in {"sleeping", "waiting"} /\ _stop_event) => Wakes(t)

\* C23 (the name predicate is exact): _is_valid_profile_name(name) is true
\* exactly when name is non-empty and made of letters, digits, spaces,
\* underscores and hyphens only.
C23_NamePredicateExact ==
    op.kind = "valid" => (op.result = PyBool(TRUE) <=> SafeName(op.name))

\* C24 (one writer): a step of start_monitoring or of stop_monitoring (its
\* call or the return of its join) changes neither current_profile nor
\* last_active_window_title, and a step that changes one of them is a step
\* of a loop inside a tick; so both survive a stop followed by a start.
C24_OneWriter ==
    [][/\ (\/ caller' # caller
           \/ _monitor_thread' # _monitor_thread
           \/ _stop_event' # _stop_event
           \/ last_call' # last_call)
          => UNCHANGED <<current_profile, last_active_window_title>>
       /\ (\/ current_profile' # current_profile
           \/ last_active_window_title' # last_active_window_title)
          => \E t \in Loops :
                /\ loops[t].pc \in {"queried", "applying"}
                /\ loops'[t] # loops[t]]_vars

\* Started again after a stop: the loop of the second start has not run a
\* tick yet, no other loop exists, and both values are those the first loop
\* left.
C24_Witness ==
    /\ last_call = <<"start", FALSE>>
    /\ _monitor_thread # None
    /\ loops[_monitor_thread[1]].pc = "start"
    /\ \A t \in Loops : t # _monitor_thread[1] => loops[t].pc = "none"
    /\ current_profile = Some("WorkProfile")
    /\ last_active_window_title = Some(Notepad)

\* C25 (profile lifecycle): the stored profiles change only by a successful
\* save, which stores the snapshot under its name, and by a successful
\* delete, which removes its name; so list_profiles returns the names saved
\* and not deleted since.  load, apply, list, a failed save and a failed
\* delete (that of a name that is not stored among them) change nothing.
C25_ProfileLifecycle ==
    [][/\ op'.kind = "list" =>
             /\ Range(Held(op'.result)) = DOMAIN profile_dir
             /\ Len(Held(op'.result)) = Cardinality(DOMAIN profile_dir)
       /\ (op'.kind = "save" /\ op'.result = PyBool(TRUE)) =>
             /\ DOMAIN profile_dir' = DOMAIN profile_dir \cup {op'.name}
             /\ WellFormedProfile(profile_dir'[op'.name])
             /\ SameAsStore(JsonLoad(Member(profile_dir'[op'.name], "sounds")), registry)
             /\ \A n \in DOMAIN profile_dir \ {op'.name} :
                    profile_dir'[n] = profile_dir[n]
       /\ (op'.kind = "delete" /\ op'.result = PyBool(TRUE)) =>
             /\ op'.name \in DOMAIN profile_dir
             /\ DOMAIN profile_dir' = DOMAIN profile_dir \ {op'.name}
             /\ \A n \in DOMAIN profile_dir' : profile_dir'[n] = profile_dir[n]
       /\ (op'.kind = "delete" /\ op'.name \notin DOMAIN profile_dir) =>
             op'.result = PyBool(FALSE)
       /\ ~(op'.kind \in {"save", "delete"} /\ op'.result = PyBool(TRUE)) =>
             profile_dir' = profile_dir]_vars

\* The categories of the document `text` whose value is not a mapping of
\* sub-events.
BadCategories(text) ==
    {m[1] : m \in {x \in Range(Held(Member(text, "sounds"))) :
                       TypeOf(x[2]) # "object"}}

\* C30 (a malformed category is skipped): when apply_profile applies a
\* document with a category whose value is not a mapping of sub-events, no
\* key of that category is written or attempted, every binding of the other
\* categories is still attempted, and the result is success exactly when
\* every binding of the other categories was written.
C30_BadCategorySkipped ==
    [][(/\ op'.kind = "apply"
        /\ ProfileLoads(profile_dir, op'.name, op'.readable)
        /\ BadCategories(profile_dir[op'.name]) # {})
          => LET text == profile_dir[op'.name]
             IN  /\ \A c \in BadCategories(text) :
                       /\ \A k \in Range(op'.attempted) : k[1] # c
                       /\ c \in DOMAIN registry' <=> c \in DOMAIN registry
                       /\ c \in DOMAIN registry => registry'[c] = registry[c]
                 /\ \A b \in BindingsOf(text) :
                       TypeOf(b[3]) \in {"null", "string"}
                           => <<b[1], b[2]>> \in Range(op'.attempted)
                 /\ op'.result = PyBool(TRUE)
                       <=> \A b \in BindingsOf(text) :
                               WriteSucceeds(b, op'.denied)]_vars

\* SystemAsterisk holds a string and is skipped; MailBeep is applied.
C30_Witness ==
    /\ op.kind = "apply"
    /\ op.name = Game
    /\ Game \in DOMAIN profile_dir
    /\ profile_dir[Game] = ProfileText(Game, BadCategory)
    /\ op.result = PyBool(TRUE)
    /\ op.attempted = <<<<"MailBeep", ".Current">>>>
    /\ DOMAIN registry = {"MailBeep"}
    /\ registry["MailBeep"][".Current"] = Ding

\* Every sound that is set in the Sound Store names an existing file.
SetPathsExist(reg) ==
    \A c \in DOMAIN reg : \A s \in DOMAIN reg[c] :
        reg[c][s] # <<>> => ExpandVars(reg[c][s]) \in ExistingFiles

\* C29 (snapshot then apply is the identity): when every set sound names an
\* existing file and every key can be written, an apply_profile(n) that
\* directly follows a successful save_profile(n) returns success and leaves
\* the path read back for every category and sub-event as it was; a sound
\* that is not set is written as the empty string and still reads as not
\* set.
C29_SnapshotApplyIdentity ==
    [][(/\ op.kind = "save" /\ op.result = PyBool(TRUE)
        /\ op'.kind = "apply" /\ op'.name = op.name
        /\ op'.readable /\ op'.denied = {}
        /\ SetPathsExist(registry))
          => /\ op'.result = PyBool(TRUE)
             /\ \A c \in Range(Categories) : \A s \in Range(SubEvents) :
                   GetSoundFilePath(registry', c, s)
                       = GetSoundFilePath(registry, c, s)
             /\ \A c \in DOMAIN registry : \A s \in DOMAIN registry[c] :
                   /\ <<c, s>> \in Range(op'.attempted)
                   /\ registry[c][s] = <<>> => registry'[c][s] = <<>>]_vars

\* The snapshot of Work was applied: the three keys were written, the sound
\* stored with a variable now holds its expansion, the unset one is empty.
C29_Witness ==
    /\ op.kind = "apply"
    /\ op.name = Work
    /\ op.result = PyBool(TRUE)
    /\ Work \in DOMAIN profile_dir
    /\ op.attempted = << <<"SystemAsterisk", ".Current">>,
                         <<"SystemAsterisk", ".Default">>,
                         <<"MailBeep", ".Current">> >>
    /\ DOMAIN registry = {"SystemAsterisk", "SystemExit", "MailBeep"}
    /\ registry["SystemAsterisk"][".Default"] = <<>>
    /\ registry["MailBeep"][".Current"] = Chord
    /\ SameAsStore(JsonLoad(Member(profile_dir[Work], "sounds")), registry)

\* The applies of the log that returned success, in their order.
SuccessfulApplies ==
    LET Succeeded(entry) == entry[2] IN SelectSeq(apply_log, Succeeded)

\* C28 (provenance of current_profile): current_profile is unset as long as
\* no apply issued by the monitor returned success, and afterwards is the
\* name passed to the latest apply that returned success; it is therefore
\* always unset, the configured default profile or the profile of a
\* configured rule.
C28_Provenance ==
    /\ current_profile =
           IF SuccessfulApplies = <<>> THEN None
           ELSE Some(SuccessfulApplies[Len(SuccessfulApplies)][1])
    /\ \/ current_profile = None
       \/ current_profile = default_profile
       \/ \E i \in 1..Len(contexts) : current_profile = Get(contexts[i], "profile")

\* The latest apply failed: current_profile is still the name of the
\* successful apply before it.
C28_Witness ==
    /\ apply_log = << <<"Default", TRUE>>, <<"WorkProfile", TRUE>>,
                      <<"Default", FALSE>> >>
    /\ current_profile = Some("WorkProfile")

\* The profile a tick that observes `title` selects.
TargetOf(title) ==
    TargetProfile(_match_context(Some(title)), default_profile)

\* C26 (convergence): when no apply ever fails and, from some point on, the
\* monitor is Running and every window query returns the title T, whose
\* target P is not none, then from some point on current_profile is P.
C26_Convergence ==
    \A title \in Titles :
        ( /\ [](\A t \in Loops : loops[t].success # Some(FALSE))
          /\ <>[](/\ Running
                  /\ prev_observed = Some(Some(title))
                  /\ TruthyStr(TargetOf(title))) )
            => <>[](current_profile = TargetOf(title))

\* C27 (the Sound Store agrees with current_profile): whenever no loop is
\* inside a tick and current_profile is P, every binding of the stored
\* profile P holds P's value in the Sound Store.
C27_StoreAgrees ==
    ( /\ current_profile # None
      /\ \A t \in Loops : loops[t].pc \notin {"queried", "applying"} )
    => \A b \in BindingsOf(profile_dir[SpelledName(current_profile[1])]) :
          /\ b[1] \in DOMAIN registry
          /\ b[2] \in DOMAIN registry[b[1]]
          /\ registry[b[1]][b[2]] =
                 IF TypeOf(b[3]) = "null" THEN <<>> ELSE Held(b[3])

====
